---------------------------- MODULE Spec2Model ----------------------------
(***************************************************************************)
(* CAMARA catalog server: the catalog service (search, rank, paginate,     *)
(* detail lookup) modelled over the literal catalog of constants.ts.       *)
(*                                                                         *)
(* Strings are TLA+ strings; a JavaScript string of UTF-16 code units is   *)
(* the string of the same characters.  The one non-ASCII code unit of the  *)
(* catalog records, U+2014 (em dash), is written "~": it is a single code  *)
(* unit without case, as "~" is, and "~" occurs nowhere else in the data.  *)
(* An optional parameter is a sequence of length at most one: undefined is *)
(* << >> and the value v is << v >>.                                       *)
(***************************************************************************)
EXTENDS Integers, Sequences, FiniteSets, TLC

\* ---------------------------------------------------------------------------
\* constants.ts
\* ---------------------------------------------------------------------------
DEFAULT_LIMIT == 20
MAX_LIMIT == 100
CAMARA_BASE_URL == "https://github.com/camaraproject"

StableCatalog ==
  <<
    [ name |-> "Number Verification",
      slug |-> "number-verification",
      category |-> "auth-fraud",
      status |-> "stable",
      description |->
        "Confirms ownership of a mobile phone number by matching it against the network-authenticated identity. Eliminates SMS OTP friction. Two mechanisms: network-based (operator knows subscriber) and SIM-based (subscriber SIM authentication).",
      useCases |-> <<
        "Account creation with phone number verification",
        "Secure login without SMS OTP",
        "Transaction validation for banking/fintech",
        "Account recovery and device migration",
        "Anti-fraud: prevent SIM swap account takeover" >>,
      latestVersion |-> "2.1.0",
      previousVersions |-> <<"2.0.0", "1.0.0">>,
      repository |-> "NumberVerification",
      websiteUrl |-> "https://camaraproject.org/number-verification/",
      specUrl |-> CAMARA_BASE_URL \o "/NumberVerification",
      industries |-> <<"Banking", "E-Commerce", "Healthcare", "Insurance", "Fintech">>,
      authFlow |-> "OIDC Authorization Code Flow (3-legged)",
      httpMethods |-> <<"POST">>,
      keyEndpoints |-> <<
        "POST /number-verifications/v2/verify - Verify phone number ownership",
        "POST /number-verifications/v2/device-phone-number - Retrieve device phone number" >> ],
    [ name |-> "SIM Swap",
      slug |-> "sim-swap",
      category |-> "auth-fraud",
      status |-> "stable",
      description |->
        "Detects whether a SIM card swap has occurred on a mobile line within a specified time window. Returns boolean or timestamp of last swap. Critical for fraud prevention in financial services.",
      useCases |-> <<
        "Fraud detection during high-value transactions",
        "Account takeover prevention",
        "KYC enhancement for onboarding",
        "Insurance claim validation",
        "Risk scoring for lending decisions" >>,
      latestVersion |-> "2.1.0",
      previousVersions |-> <<"2.0.0", "1.0.0">>,
      repository |-> "SimSwap",
      websiteUrl |-> "https://camaraproject.org/sim-swap/",
      specUrl |-> CAMARA_BASE_URL \o "/SimSwap",
      industries |-> <<"Banking", "Fintech", "Insurance", "Payments">>,
      authFlow |-> "OIDC Client Credentials (2-legged) or Authorization Code (3-legged)",
      httpMethods |-> <<"POST">>,
      keyEndpoints |-> <<
        "POST /sim-swap/v2/check - Check if SIM swap occurred in time window",
        "POST /sim-swap/v2/retrieve-date - Get date of last SIM swap" >> ],
    [ name |-> "Location Verification",
      slug |-> "location-verification",
      category |-> "location",
      status |-> "stable",
      description |->
        "Determines whether a mobile device is within the proximity of a specified geographical area (circle with lat/lng center and radius). Network-based location verification without requiring device-side GPS permissions.",
      useCases |-> <<
        "Fraud prevention for location-dependent banking transactions",
        "Insurance claim geolocation validation",
        "Age-gated content delivery verification",
        "Logistics and delivery confirmation",
        "Regulatory compliance (geo-restriction enforcement)" >>,
      latestVersion |-> "3.0.0",
      previousVersions |-> <<"2.0.0", "1.0.0">>,
      repository |-> "DeviceLocation",
      websiteUrl |-> "https://camaraproject.org/location-verification/",
      specUrl |-> CAMARA_BASE_URL \o "/DeviceLocation",
      industries |-> <<"Banking", "Insurance", "Logistics", "Retail", "Government">>,
      authFlow |-> "OIDC Authorization Code Flow (3-legged)",
      httpMethods |-> <<"POST">>,
      keyEndpoints |-> <<
        "POST /location-verification/v3/verify - Verify device is within area" >> ],
    [ name |-> "Device Reachability Status",
      slug |-> "device-reachability-status",
      category |-> "device-info",
      status |-> "stable",
      description |->
        "Checks whether a mobile device is currently reachable on the network (connected, not connected, or SMS-only). Supports event subscriptions for status change notifications.",
      useCases |-> <<
        "IoT device monitoring and health checks",
        "Optimizing push notification delivery",
        "Customer engagement timing",
        "Service level agreement monitoring",
        "Emergency communications readiness" >>,
      latestVersion |-> "1.1.0",
      previousVersions |-> <<"1.0.0", "0.6.1">>,
      repository |-> "DeviceReachabilityStatus",
      websiteUrl |-> "https://camaraproject.org/device-reachability-status/",
      specUrl |-> CAMARA_BASE_URL \o "/DeviceReachabilityStatus",
      industries |-> <<"IoT", "Telecom", "Logistics", "Healthcare">>,
      authFlow |-> "OIDC Client Credentials (2-legged)",
      httpMethods |-> <<"POST">>,
      keyEndpoints |-> <<
        "POST /device-reachability-status/v1/retrieve - Get current reachability status" >> ],
    [ name |-> "Device Roaming Status",
      slug |-> "device-roaming-status",
      category |-> "device-info",
      status |-> "stable",
      description |->
        "Determines whether a mobile device is currently roaming and, if so, in which country. Supports event subscriptions for roaming status changes.",
      useCases |-> <<
        "Personalized pricing based on roaming status",
        "Compliance with data sovereignty requirements",
        "Travel insurance activation",
        "Fraud detection (unexpected roaming)",
        "Content and service adaptation by region" >>,
      latestVersion |-> "1.1.0",
      previousVersions |-> <<"1.0.0", "0.6.1">>,
      repository |-> "DeviceRoamingStatus",
      websiteUrl |-> "https://camaraproject.org/device-roaming-status/",
      specUrl |-> CAMARA_BASE_URL \o "/DeviceRoamingStatus",
      industries |-> <<"Travel", "Insurance", "Banking", "Telecom">>,
      authFlow |-> "OIDC Client Credentials (2-legged)",
      httpMethods |-> <<"POST">>,
      keyEndpoints |-> <<
        "POST /device-roaming-status/v1/retrieve - Get current roaming status" >> ],
    [ name |-> "One-Time Password SMS",
      slug |-> "one-time-password-sms",
      category |-> "auth-fraud",
      status |-> "stable",
      description |->
        "Sends short-lived OTPs to a phone number via SMS and validates them. Network-based delivery without relying on third-party SMS aggregators. Operator-grade delivery assurance.",
      useCases |-> <<
        "Two-factor authentication",
        "Account recovery verification",
        "Transaction confirmation",
        "Secure sign-up flows",
        "Passwordless authentication" >>,
      latestVersion |-> "1.1.1",
      previousVersions |-> <<"1.1.0", "1.0.0">>,
      repository |-> "OTPValidation",
      websiteUrl |-> "https://camaraproject.org/one-time-password-sms/",
      specUrl |-> CAMARA_BASE_URL \o "/OTPValidation",
      industries |-> <<"Banking", "E-Commerce", "Healthcare", "SaaS">>,
      authFlow |-> "OIDC Client Credentials (2-legged)",
      httpMethods |-> <<"POST">>,
      keyEndpoints |-> <<
        "POST /otp/v1/send-code - Send OTP to phone number",
        "POST /otp/v1/validate-code - Validate received OTP" >> ],
    [ name |-> "Quality on Demand",
      slug |-> "quality-on-demand",
      category |-> "communication-quality",
      status |-> "stable",
      description |->
        "Request and manage specific network quality (bandwidth, latency) for a device session. Enables premium network performance for latency-sensitive applications like gaming, video, and AR/VR.",
      useCases |-> <<
        "Cloud gaming session quality guarantee",
        "Video conferencing quality boost",
        "AR/VR experience optimization",
        "Live streaming priority bandwidth",
        "Industrial IoT critical communications" >>,
      latestVersion |-> "1.1.0",
      previousVersions |-> <<"1.0.0", "0.11.1">>,
      repository |-> "QualityOnDemand",
      websiteUrl |-> "https://camaraproject.org/quality-on-demand/",
      specUrl |-> CAMARA_BASE_URL \o "/QualityOnDemand",
      industries |-> <<"Gaming", "Media", "AR/VR", "Enterprise", "IoT">>,
      authFlow |-> "OIDC Client Credentials (2-legged) or Authorization Code (3-legged)",
      httpMethods |-> <<"POST", "GET", "DELETE">>,
      keyEndpoints |-> <<
        "POST /qod/v1/sessions - Create QoS session",
        "GET /qod/v1/sessions/{sessionId} - Get session status",
        "DELETE /qod/v1/sessions/{sessionId} - Terminate session" >> ],
    [ name |-> "QoS Profiles",
      slug |-> "qos-profiles",
      category |-> "communication-quality",
      status |-> "stable",
      description |->
        "Discover available Quality of Service profiles offered by a network operator. Profiles define bandwidth, latency, and jitter parameters that can be requested via the Quality on Demand API.",
      useCases |-> <<
        "Service catalog discovery",
        "Dynamic QoS profile selection",
        "Network capability assessment",
        "SLA-based service provisioning" >>,
      latestVersion |-> "1.1.0",
      previousVersions |-> <<"1.0.0", "0.11.1">>,
      repository |-> "QualityOnDemand",
      websiteUrl |-> "https://camaraproject.org/qos-profiles/",
      specUrl |-> CAMARA_BASE_URL \o "/QualityOnDemand",
      industries |-> <<"Gaming", "Media", "Enterprise", "IoT">>,
      authFlow |-> "OIDC Client Credentials (2-legged)",
      httpMethods |-> <<"GET">>,
      keyEndpoints |-> <<
        "GET /qos-profiles/v1 - List available QoS profiles",
        "GET /qos-profiles/v1/{profileId} - Get profile details" >> ],
    [ name |-> "Simple Edge Discovery",
      slug |-> "simple-edge-discovery",
      category |-> "computing",
      status |-> "stable",
      description |->
        "Discover optimal Multi-access Edge Computing (MEC) endpoints closest to a user's device. Enables low-latency edge deployment for applications requiring proximity computing.",
      useCases |-> <<
        "Edge application deployment optimization",
        "Latency-sensitive workload placement",
        "CDN edge node selection",
        "Mobile gaming server selection",
        "AR/VR edge rendering" >>,
      latestVersion |-> "2.0.0",
      previousVersions |-> <<"1.0.0">>,
      repository |-> "SimpleEdgeDiscovery",
      websiteUrl |-> "https://camaraproject.org/simple-edge-discovery/",
      specUrl |-> CAMARA_BASE_URL \o "/SimpleEdgeDiscovery",
      industries |-> <<"Gaming", "AR/VR", "CDN", "Cloud", "IoT">>,
      authFlow |-> "OIDC Client Credentials (2-legged)",
      httpMethods |-> <<"GET">>,
      keyEndpoints |-> <<
        "GET /edge-discovery/v2/mec-platforms - Discover nearest MEC platforms" >> ],
    [ name |-> "Device Swap",
      slug |-> "device-swap",
      category |-> "device-info",
      status |-> "stable",
      description |->
        "Detects whether the physical device (IMEI) associated with a mobile subscription has changed. Similar to SIM Swap but tracks the hardware device rather than the SIM card.",
      useCases |-> <<
        "Fraud detection (unexpected device changes)",
        "Device financing risk management",
        "Insurance claim validation",
        "Account security monitoring",
        "Customer lifecycle management" >>,
      latestVersion |-> "1.0.0",
      previousVersions |-> <<"0.2.0">>,
      repository |-> "DeviceSwap",
      websiteUrl |-> "https://camaraproject.org/device-swap/",
      specUrl |-> CAMARA_BASE_URL \o "/DeviceSwap",
      industries |-> <<"Banking", "Insurance", "Device Finance", "Telecom">>,
      authFlow |-> "OIDC Client Credentials (2-legged) or Authorization Code (3-legged)",
      httpMethods |-> <<"POST">>,
      keyEndpoints |-> <<
        "POST /device-swap/v1/check - Check if device swap occurred",
        "POST /device-swap/v1/retrieve-date - Get date of last device swap" >> ]
  >>

InitialCatalog ==
  <<
    [ name |-> "Application Profiles",
      slug |-> "application-profiles",
      category |-> "communication-quality",
      version |-> "0.5.0",
      repository |-> "ApplicationProfiles",
      description |-> "Define and manage application requirements for network service optimization." ],
    [ name |-> "Call Forwarding Signal",
      slug |-> "call-forwarding-signal",
      category |-> "auth-fraud",
      version |-> "0.4.0",
      repository |-> "CallForwardingSignal",
      description |-> "Detect if a phone number has call forwarding enabled ~ fraud prevention signal." ],
    [ name |-> "Carrier Billing",
      slug |-> "carrier-billing",
      category |-> "payments",
      version |-> "0.5.0",
      repository |-> "CarrierBillingCheckOut",
      description |-> "Charge digital content purchases to the mobile subscriber's bill." ],
    [ name |-> "Connectivity Insights",
      slug |-> "connectivity-insights",
      category |-> "communication-quality",
      version |-> "0.5.0",
      repository |-> "ConnectivityInsights",
      description |-> "Network quality predictions and monitoring for application sessions." ],
    [ name |-> "Customer Insights",
      slug |-> "customer-insights",
      category |-> "identity",
      version |-> "0.2.0",
      repository |-> "CustomerInsights",
      description |-> "Anonymized aggregate insights about customer segments." ],
    [ name |-> "Device Identifier",
      slug |-> "device-identifier",
      category |-> "device-info",
      version |-> "0.3.0",
      repository |-> "DeviceIdentifier",
      description |-> "Retrieve device model information (TAC/IMEI) for the authenticated subscriber." ],
    [ name |-> "Geofencing Subscriptions",
      slug |-> "geofencing-subscriptions",
      category |-> "location",
      version |-> "0.4.0",
      repository |-> "DeviceLocation",
      description |-> "Subscribe to notifications when a device enters or exits a defined geographical area." ],
    [ name |-> "KYC Age Verification",
      slug |-> "kyc-age-verification",
      category |-> "identity",
      version |-> "0.2.0",
      repository |-> "KnowYourCustomerAgeVerification",
      description |-> "Verify if a subscriber meets a minimum age threshold without revealing actual age." ],
    [ name |-> "KYC Fill-In",
      slug |-> "kyc-fill-in",
      category |-> "identity",
      version |-> "0.4.0",
      repository |-> "KnowYourCustomerFill-in",
      description |-> "Auto-fill customer identity data from operator records for onboarding." ],
    [ name |-> "KYC Match",
      slug |-> "kyc-match",
      category |-> "identity",
      version |-> "0.5.0",
      repository |-> "KnowYourCustomer",
      description |-> "Verify customer-provided identity attributes against operator records." ],
    [ name |-> "KYC Tenure",
      slug |-> "kyc-tenure",
      category |-> "identity",
      version |-> "0.2.0",
      repository |-> "Tenure",
      description |-> "Verify the length of tenure for a subscriber with their current operator." ],
    [ name |-> "Location Retrieval",
      slug |-> "location-retrieval",
      category |-> "location",
      version |-> "0.5.0",
      repository |-> "DeviceLocation",
      description |-> "Retrieve the approximate location of a mobile device from the network." ],
    [ name |-> "Number Recycling",
      slug |-> "number-recycling",
      category |-> "auth-fraud",
      version |-> "0.2.0",
      repository |-> "NumberRecycling",
      description |-> "Detect if a phone number has been reassigned to a new subscriber." ],
    [ name |-> "Population Density Data",
      slug |-> "population-density-data",
      category |-> "location",
      version |-> "0.4.0",
      repository |-> "PopulationDensityData",
      description |-> "Anonymized population density estimates based on network data." ],
    [ name |-> "Region Device Count",
      slug |-> "region-device-count",
      category |-> "location",
      version |-> "0.2.0",
      repository |-> "RegionDeviceCount",
      description |-> "Count of devices in a defined geographical region." ],
    [ name |-> "Scam Signal",
      slug |-> "scam-signal",
      category |-> "auth-fraud",
      version |-> "0.3.1",
      repository |-> "ScamSignal",
      description |-> "Real-time scam call detection signals for fraud prevention." ],
    [ name |-> "Verified Caller",
      slug |-> "verified-caller",
      category |-> "auth-fraud",
      version |-> "0.2.0",
      repository |-> "VerifiedCaller",
      description |-> "Prove caller authenticity to eliminate phone scams and spoofing." ],
    [ name |-> "WebRTC",
      slug |-> "webrtc",
      category |-> "communication",
      version |-> "0.1.0",
      repository |-> "WebRTC",
      description |-> "Browser-based real-time communication with network quality integration." ],
    [ name |-> "SMS",
      slug |-> "sms",
      category |-> "communication",
      version |-> "0.1.0",
      repository |-> "ShortMessageService",
      description |-> "Send and receive SMS messages through standardized API." ],
    [ name |-> "Connected Network Type",
      slug |-> "connected-network-type",
      category |-> "device-info",
      version |-> "0.1.0",
      repository |-> "DeviceStatus",
      description |-> "Identify the network technology (4G/5G/WiFi) a device is connected to." ],
    [ name |-> "Blockchain Public Address",
      slug |-> "blockchain-public-address",
      category |-> "identity",
      version |-> "0.1.0",
      repository |-> "BlockchainPublicAddress",
      description |-> "Associate blockchain wallet addresses with mobile identities." ]
  >>
API_CATEGORY_IDS ==
  << "auth-fraud", "location", "communication", "communication-quality",
     "device-info", "computing", "payments", "identity" >>

\* The literal of API_CATEGORIES: its entries in the order of its keys.  The
\* icons are pictographs outside ASCII and are written as a word in brackets.
CategoryCatalog ==
  << [ id |-> "auth-fraud",
       label |-> "Authentication & Fraud Prevention",
       description |-> "APIs for identity verification, fraud detection, and secure authentication without traditional methods like SMS OTP.",
       icon |-> "[lock]" ],
     [ id |-> "location",
       label |-> "Location Services",
       description |-> "Network-based location verification, retrieval, and geofencing without device-side GPS dependencies.",
       icon |-> "[pin]" ],
     [ id |-> "communication",
       label |-> "Communication Services",
       description |-> "Messaging, voice, and real-time communication APIs leveraging operator infrastructure.",
       icon |-> "[receiver]" ],
     [ id |-> "communication-quality",
       label |-> "Communication Quality",
       description |-> "Quality of Service management, QoS profiles, and connectivity insights for application optimization.",
       icon |-> "[bars]" ],
     [ id |-> "device-info",
       label |-> "Device Information",
       description |-> "Device status, reachability, roaming, and hardware change detection APIs.",
       icon |-> "[phone]" ],
     [ id |-> "computing",
       label |-> "Computing Services",
       description |-> "Edge computing discovery and optimization for low-latency applications.",
       icon |-> "[cloud]" ],
     [ id |-> "payments",
       label |-> "Payments & Charging",
       description |-> "Carrier billing and direct-to-bill payment APIs.",
       icon |-> "[card]" ],
     [ id |-> "identity",
       label |-> "Identity & KYC",
       description |-> "Know Your Customer, age verification, tenure validation, and identity enrichment APIs.",
       icon |-> "[id]" ] >>

\* ---------------------------------------------------------------------------
\* JavaScript values and library functions used by the service
\* ---------------------------------------------------------------------------
undefined == << >>

Some(v) == << v >>

\* ToBoolean of an optional string: undefined and "" are falsy.
truthy(opt) == opt # undefined /\ opt[1] # ""

Min(a, b) == IF a <= b THEN a ELSE b

Max(a, b) == IF a >= b THEN a ELSE b

Range(s) == { s[i] : i \in DOMAIN s }

UpperLetters == "ABCDEFGHIJKLMNOPQRSTUVWXYZ"

LowerLetters == "abcdefghijklmnopqrstuvwxyz"

charAt(s, i) == SubSeq(s, i, i)

\* String.prototype.toLowerCase on one code unit.
lowerChar ==
  [ c \in { charAt(UpperLetters, i) : i \in 1..26 } |->
      charAt(LowerLetters, CHOOSE i \in 1..26 : charAt(UpperLetters, i) = c) ]

\* String.prototype.toLowerCase: every code unit is mapped on its own; the
\* string is split in halves to keep the evaluation shallow.
RECURSIVE toLowerCase(_)
toLowerCase(s) ==
  IF Len(s) = 0 THEN ""
  ELSE IF Len(s) = 1
    THEN (IF s \in DOMAIN lowerChar THEN lowerChar[s] ELSE s)
  ELSE toLowerCase(SubSeq(s, 1, Len(s) \div 2))
         \o toLowerCase(SubSeq(s, Len(s) \div 2 + 1, Len(s)))

\* String.prototype.includes: q occurs in text as a contiguous substring.
includes(text, q) ==
  \E i \in 0..(Len(text) - Len(q)) : SubSeq(text, i + 1, i + Len(q)) = q

\* Array.prototype.slice(start, end) with the relative-index rules of the
\* language: a negative index counts from the end, both are clamped to 0..len.
sliceIndex(len, k) == IF k < 0 THEN Max(len + k, 0) ELSE Min(k, len)

slice(arr, start, end) ==
  SubSeq(arr, sliceIndex(Len(arr), start) + 1, sliceIndex(Len(arr), end))

\* String.prototype.localeCompare with the default collator: the root
\* collation of the runtime's ICU.  Primary level: white space, then
\* punctuation, then symbols, then digits, then letters, letters compared
\* without case; a proper prefix sorts first.  Strings equal at the primary
\* level are ordered at the tertiary level, lower case before upper case.
CollationOrder ==
  " _-,;:!?.'()[]{}@*/&#%^+<=>|$0123456789abcdefghijklmnopqrstuvwxyz"

CollationChars == { charAt(CollationOrder, i) : i \in 1..Len(CollationOrder) }

primaryWeight ==
  [ c \in CollationChars \cup DOMAIN lowerChar |->
      LET l == IF c \in DOMAIN lowerChar THEN lowerChar[c] ELSE c
      IN  CHOOSE i \in 1..Len(CollationOrder) : charAt(CollationOrder, i) = l ]

isLowerCase(c) == c \notin DOMAIN lowerChar

localeCompare(a, b) ==
  LET n == Min(Len(a), Len(b))
      pdiff == { i \in 1..n :
                   primaryWeight[charAt(a, i)] # primaryWeight[charAt(b, i)] }
      tdiff == { i \in 1..n : charAt(a, i) # charAt(b, i) }
      first(S) == CHOOSE i \in S : \A j \in S : i <= j
  IN  IF pdiff # {}
        THEN IF primaryWeight[charAt(a, first(pdiff))]
                  < primaryWeight[charAt(b, first(pdiff))] THEN -1 ELSE 1
      ELSE IF Len(a) # Len(b)
        THEN IF Len(a) < Len(b) THEN -1 ELSE 1
      ELSE IF tdiff # {}
        THEN IF isLowerCase(charAt(a, first(tdiff))) THEN -1 ELSE 1
      ELSE 0

\* Comparison of two strings by UTF-16 code unit, the order of the relational
\* operators on strings.  CodeUnitRuns lists the code units 32..126 (without
\* 96, the grave accent) as runs of consecutive code units, each with the
\* code unit of its first character.
CodeUnitRuns ==
  { << 32, " !\"#$%&'()*+,-./0123456789:;<=>?@ABCDEFGHIJKLMNOPQRSTUVWXYZ[\\]^_" >>,
    << 97, "abcdefghijklmnopqrstuvwxyz{|}~" >> }

codeUnit ==
  [ c \in UNION { { charAt(r[2], i) : i \in 1..Len(r[2]) } : r \in CodeUnitRuns } |->
      LET r == CHOOSE r \in CodeUnitRuns : \E i \in 1..Len(r[2]) : charAt(r[2], i) = c
      IN  r[1] + (CHOOSE i \in 1..Len(r[2]) : charAt(r[2], i) = c) - 1 ]

ordinalCompare(a, b) ==
  LET n == Min(Len(a), Len(b))
      diff == { i \in 1..n : charAt(a, i) # charAt(b, i) }
      k == CHOOSE i \in diff : \A j \in diff : i <= j
  IN  IF diff # {}
        THEN IF codeUnit[charAt(a, k)] < codeUnit[charAt(b, k)] THEN -1 ELSE 1
      ELSE IF Len(a) # Len(b)
        THEN IF Len(a) < Len(b) THEN -1 ELSE 1
      ELSE 0

\* ---------------------------------------------------------------------------
\* Module state: the two catalog arrays and the category object of
\* constants.ts
\* ---------------------------------------------------------------------------
VARIABLES STABLE_APIS, INITIAL_APIS, API_CATEGORIES

\* ---------------------------------------------------------------------------
\* services/catalog: search
\* ---------------------------------------------------------------------------
\* Mutant of firstMatchScore: the loop goes on after a match.
RECURSIVE firstMatchScore_noBreak(_, _, _, _)
firstMatchScore_noBreak(list, q, weight, i) ==
  IF i > Len(list) THEN 0
  ELSE (IF includes(toLowerCase(list[i]), q) THEN weight ELSE 0)
         + firstMatchScore_noBreak(list, q, weight, i + 1)

\* The for-loops of searchScore: the first matching entry adds the weight and
\* breaks out of the loop.
RECURSIVE firstMatchScore(_, _, _, _)
firstMatchScore(list, q, weight, i) ==
  IF i > Len(list) THEN 0
  ELSE IF includes(toLowerCase(list[i]), q) THEN weight
  ELSE firstMatchScore(list, q, weight, i + 1)

searchScore(api, query) ==
  LET q == toLowerCase(query)
      s1 == IF includes(toLowerCase(api.name), q) THEN 10 ELSE 0
      s2 == s1 + (IF includes(api.slug, q) THEN 8 ELSE 0)
      s3 == s2 + (IF includes(api.category, q) THEN 5 ELSE 0)
      s4 == s3 + (IF includes(toLowerCase(api.description), q) THEN 3 ELSE 0)
      s5 == s4 + (IF "useCases" \in DOMAIN api
                  THEN firstMatchScore(api.useCases, q, 2, 1) ELSE 0)
      s6 == s5 + (IF "industries" \in DOMAIN api
                  THEN firstMatchScore(api.industries, q, 4, 1) ELSE 0)
  IN  s6

\* ---------------------------------------------------------------------------
\* Inputs of the model
\* ---------------------------------------------------------------------------
\* Query strings: empty, matching several fields, matching with another case
\* than the data, matching a slug or a category only, matching nothing.
QueryStrings == { "", "fraud", "Banking", "swap", "KYC", "zzz" }

\* Query strings for searchScore alone: also one matching a slug only, a
\* category only, and several entries of one list.
\* A query of exactly 200 characters and one of 201.
Query200 ==
  LET q50 == "fraud fraud fraud fraud fraud fraud fraud fraud fr"
  IN  q50 \o q50 \o q50 \o q50

Query201 == Query200 \o "a"

ScoreQueries ==
  QueryStrings \cup { "sim-", "-quality", "in", "Device", "OTP", Query200 }

Queries == { undefined } \cup { Some(q) : q \in QueryStrings }

Categories == { undefined } \cup { Some(c) : c \in Range(API_CATEGORY_IDS) }

Statuses == { undefined, Some("stable"), Some("initial"), Some("sandbox") }

Limits == { 1, 5, DEFAULT_LIMIT, MAX_LIMIT }

MaxOffset == 5

Offsets == 0..MaxOffset

\* The objects the catalog arrays hold.  No code writes a field of a record,
\* so searchScore and the name comparison are functions of the object alone
\* and are tabulated once over the objects and the query strings.
CatalogObjects == Range(StableCatalog) \cup Range(InitialCatalog)

searchScoreTable ==
  [ q \in ScoreQueries |-> [ api \in CatalogObjects |-> searchScore(api, q) ] ]

score(api, query) == searchScoreTable[query][api]

CatalogNames == { api.name : api \in CatalogObjects }

localeCompareTable ==
  [ a \in CatalogNames |-> [ b \in CatalogNames |-> localeCompare(a, b) ] ]

\* ---------------------------------------------------------------------------
\* services/catalog: searchApis
\* ---------------------------------------------------------------------------
toSearchResult(api) ==
  [ name |-> api.name,
    slug |-> api.slug,
    category |-> api.category,
    status |-> api.status,
    version |-> api.latestVersion,
    description |-> api.description,
    repository_url |-> api.specUrl,
    website_url |-> api.websiteUrl ]

initialToSearchResult(api) ==
  [ name |-> api.name,
    slug |-> api.slug,
    category |-> api.category,
    status |-> "initial",
    version |-> api.version,
    description |-> api.description,
    repository_url |-> CAMARA_BASE_URL \o "/" \o api.repository ]

\* Mutant of stableFilter: the query test is left out.
stableFilter_noQueryTest(api, query, category, status) ==
  IF truthy(category) /\ api.category # category[1] THEN FALSE
  ELSE IF truthy(status) /\ api.status # status[1] THEN FALSE
  ELSE TRUE

\* Mutant of stableFilter: the category test is left out.
stableFilter_noCategoryTest(api, query, category, status) ==
  IF truthy(status) /\ api.status # status[1] THEN FALSE
  ELSE IF truthy(query) /\ score(api, query[1]) = 0 THEN FALSE
  ELSE TRUE

stableFilter(api, query, category, status) ==
  IF truthy(category) /\ api.category # category[1] THEN FALSE
  ELSE IF truthy(status) /\ api.status # status[1] THEN FALSE
  ELSE IF truthy(query) /\ score(api, query[1]) = 0 THEN FALSE
  ELSE TRUE

\* Mutant of initialFilter: the two status tests are left out.
initialFilter_noStatusTest(api, query, category, status) ==
  IF truthy(category) /\ api.category # category[1] THEN FALSE
  ELSE IF truthy(query) /\ score(api, query[1]) = 0 THEN FALSE
  ELSE TRUE

initialFilter(api, query, category, status) ==
  IF truthy(category) /\ api.category # category[1] THEN FALSE
  ELSE IF status = Some("stable") THEN FALSE
  ELSE IF truthy(status) /\ status[1] # "initial" THEN FALSE
  ELSE IF truthy(query) /\ score(api, query[1]) = 0 THEN FALSE
  ELSE TRUE

stableResults(query, category, status) ==
  LET kept == SelectSeq(STABLE_APIS,
                        LAMBDA api : stableFilter(api, query, category, status))
  IN  [ i \in 1..Len(kept) |->
          [ api |-> kept[i],
            score |-> IF truthy(query) THEN score(kept[i], query[1]) ELSE 0 ] ]

initialResults(query, category, status) ==
  LET kept == SelectSeq(INITIAL_APIS,
                        LAMBDA api : initialFilter(api, query, category, status))
  IN  [ i \in 1..Len(kept) |->
          [ api |-> kept[i],
            score |-> IF truthy(query) THEN score(kept[i], query[1]) ELSE 0 ] ]

\* Mutant of compareFn: names are compared by code unit.
compareFn_ordinal(a, b) ==
  IF b.score - a.score # 0 THEN b.score - a.score
  ELSE ordinalCompare(a.result.name, b.result.name)

\* The comparator of the sort: b.score - a.score || a.name.localeCompare(b.name)
compareFn(a, b) ==
  IF b.score - a.score # 0 THEN b.score - a.score
  ELSE localeCompareTable[a.result.name][b.result.name]

\* Array.prototype.sort is stable: an element goes behind every element that
\* does not compare greater than it.
insertSorted(sorted, x) ==
  LET after == { i \in 1..Len(sorted) : compareFn(sorted[i], x) > 0 }
      k == IF after = {} THEN Len(sorted) + 1
           ELSE CHOOSE i \in after : \A j \in after : i <= j
  IN  SubSeq(sorted, 1, k - 1) \o << x >> \o SubSeq(sorted, k, Len(sorted))

RECURSIVE sortFrom(_, _, _)
sortFrom(arr, i, sorted) ==
  IF i > Len(arr) THEN sorted
  ELSE sortFrom(arr, i + 1, insertSorted(sorted, arr[i]))

sort(arr) == sortFrom(arr, 1, << >>)

\* The local array  combined  of searchApis after the sort.
combinedArray(query, category, status) ==
  LET st == stableResults(query, category, status)
      ini == initialResults(query, category, status)
  IN  sort([ i \in 1..Len(st) |->
               [ score |-> st[i].score, result |-> toSearchResult(st[i].api) ] ]
           \o
           [ i \in 1..Len(ini) |->
               [ score |-> ini[i].score,
                 result |-> initialToSearchResult(ini[i].api) ] ])

\* Mutant of initialAfterSearch: the filter removes the records that fail it
\* from INITIAL_APIS itself.
initialAfterSearch_filterInPlace(query, category, status) ==
  SelectSeq(INITIAL_APIS, LAMBDA api : initialFilter(api, query, category, status))

\* Mutant of stableAfterSearch: the filter removes the records that fail it
\* from STABLE_APIS itself.
stableAfterSearch_filterInPlace(query, category, status) ==
  SelectSeq(STABLE_APIS, LAMBDA api : stableFilter(api, query, category, status))

\* The catalog arrays after a searchApis call: filter, map and the spread
\* build new arrays and the sort is applied to the new array  combined , so
\* the call leaves both catalog arrays as they are.
stableAfterSearch(query, category, status) == STABLE_APIS

initialAfterSearch(query, category, status) == INITIAL_APIS

\* Mutant of searchApisReturn: the slice ends at  limit , not  offset + limit .
searchApisReturn_sliceToLimit(comb, limit, offset) ==
  LET total == Len(comb)
      paged == slice(comb, offset, limit)
      base  == [ total |-> total,
                 count |-> Len(paged),
                 offset |-> offset,
                 items |-> [ i \in 1..Len(paged) |-> paged[i].result ],
                 has_more |-> total > offset + Len(paged) ]
  IN  IF total > offset + Len(paged)
      THEN base @@ [ next_offset |-> offset + Len(paged) ]
      ELSE base

\* Mutant of searchApisReturn: next_offset is always part of the value.
searchApisReturn_alwaysNextOffset(comb, limit, offset) ==
  LET total == Len(comb)
      paged == slice(comb, offset, offset + limit)
  IN  [ total |-> total,
        count |-> Len(paged),
        offset |-> offset,
        items |-> [ i \in 1..Len(paged) |-> paged[i].result ],
        has_more |-> total > offset + Len(paged),
        next_offset |-> offset + Len(paged) ]

\* Mutant of searchApisReturn: next_offset is the length of the page.
searchApisReturn_nextOffsetCount(comb, limit, offset) ==
  LET total == Len(comb)
      paged == slice(comb, offset, offset + limit)
      base  == [ total |-> total,
                 count |-> Len(paged),
                 offset |-> offset,
                 items |-> [ i \in 1..Len(paged) |-> paged[i].result ],
                 has_more |-> total > offset + Len(paged) ]
  IN  IF total > offset + Len(paged)
      THEN base @@ [ next_offset |-> Len(paged) ]
      ELSE base

\* The value searchApis returns for a sorted  combined .
searchApisReturn(comb, limit, offset) ==
  LET total == Len(comb)
      paged == slice(comb, offset, offset + limit)
      base  == [ total |-> total,
                 count |-> Len(paged),
                 offset |-> offset,
                 items |-> [ i \in 1..Len(paged) |-> paged[i].result ],
                 has_more |-> total > offset + Len(paged) ]
  IN  IF total > offset + Len(paged)
      THEN base @@ [ next_offset |-> offset + Len(paged) ]
      ELSE base

searchApis(query, category, status, limit, offset) ==
  searchApisReturn(combinedArray(query, category, status), limit, offset)

\* ---------------------------------------------------------------------------
\* services/catalog: getApiDetail
\* ---------------------------------------------------------------------------
null == [ isNull |-> TRUE ]

\* Mutant of getApiDetail: the slug is compared without regard to case.
getApiDetail_caseInsensitive(slug) ==
  LET found == SelectSeq(STABLE_APIS, LAMBDA a : a.slug = toLowerCase(slug))
  IN  IF found = << >> THEN null
      ELSE LET api == found[1]
           IN  [ name |-> api.name,
                 slug |-> api.slug,
                 category |-> api.category,
                 status |-> api.status,
                 description |-> api.description,
                 latest_version |-> api.latestVersion,
                 previous_versions |-> api.previousVersions,
                 repository_url |-> api.specUrl,
                 website_url |-> api.websiteUrl,
                 spec_url |-> api.specUrl,
                 industries |-> api.industries,
                 auth_flow |-> api.authFlow,
                 http_methods |-> api.httpMethods,
                 key_endpoints |-> api.keyEndpoints,
                 use_cases |-> api.useCases ]

\* Mutant of getApiDetail: the record is looked up by its name.
getApiDetail_byName(slug) ==
  LET found == SelectSeq(STABLE_APIS, LAMBDA a : a.name = slug)
  IN  IF found = << >> THEN null
      ELSE LET api == found[1]
           IN  [ name |-> api.name,
                 slug |-> api.slug,
                 category |-> api.category,
                 status |-> api.status,
                 description |-> api.description,
                 latest_version |-> api.latestVersion,
                 previous_versions |-> api.previousVersions,
                 repository_url |-> api.specUrl,
                 website_url |-> api.websiteUrl,
                 spec_url |-> api.specUrl,
                 industries |-> api.industries,
                 auth_flow |-> api.authFlow,
                 http_methods |-> api.httpMethods,
                 key_endpoints |-> api.keyEndpoints,
                 use_cases |-> api.useCases ]

getApiDetail(slug) ==
  LET found == SelectSeq(STABLE_APIS, LAMBDA a : a.slug = slug)
  IN  IF found = << >> THEN null
      ELSE LET api == found[1]
           IN  [ name |-> api.name,
                 slug |-> api.slug,
                 category |-> api.category,
                 status |-> api.status,
                 description |-> api.description,
                 latest_version |-> api.latestVersion,
                 previous_versions |-> api.previousVersions,
                 repository_url |-> api.specUrl,
                 website_url |-> api.websiteUrl,
                 spec_url |-> api.specUrl,
                 industries |-> api.industries,
                 auth_flow |-> api.authFlow,
                 http_methods |-> api.httpMethods,
                 key_endpoints |-> api.keyEndpoints,
                 use_cases |-> api.useCases ]

\* ---------------------------------------------------------------------------
\* tools: results and text helpers
\* ---------------------------------------------------------------------------
\* Characters of the tool texts that cannot be written in a string here are
\* written as other ASCII text: U+2014 (em dash) as "~" (as in the catalog),
\* the grave accent as "@", and the badges as the words below.
EM_DASH == "~"

GRAVE == "@"

\* Array.prototype.join
RECURSIVE join(_, _)
join(list, sep) ==
  IF Len(list) = 0 THEN ""
  ELSE IF Len(list) = 1 THEN list[1]
  ELSE LET half == Len(list) \div 2
       IN  join(SubSeq(list, 1, half), sep) \o sep
             \o join(SubSeq(list, half + 1, Len(list)), sep)

\* The concatenation of the arrays of an array (Array.prototype.flat; the
\* lines pushed by the passes of a loop).
RECURSIVE flat(_)
flat(lists) ==
  IF Len(lists) = 0 THEN << >>
  ELSE IF Len(lists) = 1 THEN lists[1]
  ELSE LET half == Len(lists) \div 2
       IN  flat(SubSeq(lists, 1, half)) \o flat(SubSeq(lists, half + 1, Len(lists)))

\* JSON.stringify(value, null, 2): the JSON text of a value is kept as the
\* value it is the text of; two values have the same text only if they are
\* equal.
JSONstringify(value) == [ jsonTextOf |-> value ]

textResult(text, structured) ==
  IF structured = undefined
  THEN [ content |-> << [ type |-> "text", text |-> text ] >> ]
  ELSE [ content |-> << [ type |-> "text", text |-> text ] >>,
         structuredContent |-> structured[1] ]

errorResult(message) ==
  [ isError |-> TRUE,
    content |-> << [ type |-> "text", text |-> "Error: " \o message ] >> ]

\* STABLE_APIS.map(a => a.slug).join(", ")
validSlugs == join([ i \in 1..Len(STABLE_APIS) |-> STABLE_APIS[i].slug ], ", ")

\* ---------------------------------------------------------------------------
\* services/catalog: markdown of a detail
\* ---------------------------------------------------------------------------
formatApiDetailMarkdown(d) ==
  join(<< "## " \o d.name \o " " \o EM_DASH \o " v" \o d.latest_version
             \o " (Stable)\n",
          d.description,
          "",
          "### Endpoints" >>
       \o [ i \in 1..Len(d.key_endpoints) |->
              "- " \o GRAVE \o d.key_endpoints[i] \o GRAVE ]
       \o << "",
             "### Authentication",
             d.auth_flow,
             "",
             "### Use Cases" >>
       \o [ i \in 1..Len(d.use_cases) |-> "- " \o d.use_cases[i] ]
       \o << "",
             "### Target Industries",
             join(d.industries, ", "),
             "",
             "### Version History",
             "Current: v" \o d.latest_version \o " | Previous: "
                \o join(d.previous_versions, ", "),
             "",
             "### Links",
             "- Repository: " \o d.repository_url,
             "- Documentation: " \o d.website_url,
             "- OpenAPI Spec: " \o d.spec_url >>,
       "\n")

\* ---------------------------------------------------------------------------
\* tools: camara_get_api_detail
\* ---------------------------------------------------------------------------
\* The handler: its local  detail  and the result it returns.
getApiDetailTool(params) ==
  LET d == getApiDetail(params.slug)
  IN  [ locals |-> [ detail |-> d ],
        result |->
          IF d = null
          THEN errorResult("API '" \o params.slug
                             \o "' not found. Valid stable API slugs: "
                             \o validSlugs)
          ELSE IF params.response_format = "json"
          THEN textResult(JSONstringify(d), Some(d))
          ELSE textResult(formatApiDetailMarkdown(d), undefined) ]

\* ---------------------------------------------------------------------------
\* tools: camara_compare_apis
\* ---------------------------------------------------------------------------
\* String(n) for a natural number
RECURSIVE String(_)
String(n) ==
  IF n < 10 THEN charAt("0123456789", n + 1)
  ELSE String(n \div 10) \o charAt("0123456789", (n % 10) + 1)

\* API_CATEGORIES[category]?.label || category
categoryLabel(category) ==
  LET found == SelectSeq(API_CATEGORIES, LAMBDA c : c.id = category)
  IN  IF found # << >> /\ found[1].label # "" THEN found[1].label ELSE category

\* The markdown of the comparison of details.
compareMarkdown(details) ==
  LET n == Len(details)
      headers == << "Feature" >> \o [ i \in 1..n |-> details[i].name ]
      rows ==
        << << "Version" >> \o [ i \in 1..n |-> "v" \o details[i].latest_version ],
           << "Category" >> \o [ i \in 1..n |-> categoryLabel(details[i].category) ],
           << "Auth Flow" >> \o [ i \in 1..n |-> details[i].auth_flow ],
           << "HTTP Methods" >>
              \o [ i \in 1..n |-> join(details[i].http_methods, ", ") ],
           << "Industries" >>
              \o [ i \in 1..n |-> join(slice(details[i].industries, 0, 3), ", ") ],
           << "Endpoints" >>
              \o [ i \in 1..n |-> String(Len(details[i].key_endpoints)) ] >>
      section(d) ==
        << "### " \o d.name \o " " \o EM_DASH \o " Key Endpoints" >>
          \o [ i \in 1..Len(d.key_endpoints) |->
                 "- " \o GRAVE \o d.key_endpoints[i] \o GRAVE ]
          \o << "**Top Use Cases:** " \o join(slice(d.use_cases, 0, 3), "; "),
                "" >>
      sections == flat([ i \in 1..n |-> section(details[i]) ])
  IN  join(<< "## CAMARA API Comparison\n",
              "| " \o join(headers, " | ") \o " |",
              "| " \o join([ i \in 1..Len(headers) |-> "---" ], " | ") \o " |" >>
           \o [ i \in 1..Len(rows) |-> "| " \o join(rows[i], " | ") \o " |" ]
           \o << "" >>
           \o sections,
           "\n")

\* Mutant of compareApisTool: one resolved slug is enough.
compareApisTool_needOne(params) ==
  LET mapped == [ i \in 1..Len(params.slugs) |-> getApiDetail(params.slugs[i]) ]
      details == SelectSeq(mapped, LAMBDA d : d # null)
  IN  [ locals |-> [ details |-> details ],
        result |->
          IF Len(details) < 1
          THEN errorResult("Need at least 2 valid stable API slugs. Valid: "
                             \o validSlugs)
          ELSE IF params.response_format = "json"
          THEN textResult(JSONstringify([ apis |-> details ]),
                          Some([ apis |-> details ]))
          ELSE textResult(compareMarkdown(details), undefined) ]

\* Mutant of compareApisTool: a slug requested twice is looked up once.
compareApisTool_distinct(params) ==
  LET first == SelectSeq([ i \in 1..Len(params.slugs) |-> i ],
                         LAMBDA i : \A j \in 1..(i - 1) :
                                      params.slugs[j] # params.slugs[i])
      mapped == [ i \in 1..Len(first) |-> getApiDetail(params.slugs[first[i]]) ]
      details == SelectSeq(mapped, LAMBDA d : d # null)
  IN  [ locals |-> [ details |-> details ],
        result |->
          IF Len(details) < 2
          THEN errorResult("Need at least 2 valid stable API slugs. Valid: "
                             \o validSlugs)
          ELSE IF params.response_format = "json"
          THEN textResult(JSONstringify([ apis |-> details ]),
                          Some([ apis |-> details ]))
          ELSE textResult(compareMarkdown(details), undefined) ]

\* Mutant of compareApisTool: the json answer is given before the number of
\* details is looked at.
compareApisTool_jsonUnchecked(params) ==
  LET mapped == [ i \in 1..Len(params.slugs) |-> getApiDetail(params.slugs[i]) ]
      details == SelectSeq(mapped, LAMBDA d : d # null)
  IN  [ locals |-> [ details |-> details ],
        result |->
          IF params.response_format = "json"
          THEN textResult(JSONstringify([ apis |-> details ]),
                          Some([ apis |-> details ]))
          ELSE IF Len(details) < 2
          THEN errorResult("Need at least 2 valid stable API slugs. Valid: "
                             \o validSlugs)
          ELSE textResult(compareMarkdown(details), undefined) ]

\* The handler: its local  details  and the result it returns.
compareApisTool(params) ==
  LET mapped == [ i \in 1..Len(params.slugs) |-> getApiDetail(params.slugs[i]) ]
      details == SelectSeq(mapped, LAMBDA d : d # null)
  IN  [ locals |-> [ details |-> details ],
        result |->
          IF Len(details) < 2
          THEN errorResult("Need at least 2 valid stable API slugs. Valid: "
                             \o validSlugs)
          ELSE IF params.response_format = "json"
          THEN textResult(JSONstringify([ apis |-> details ]),
                          Some([ apis |-> details ]))
          ELSE textResult(compareMarkdown(details), undefined) ]

\* ---------------------------------------------------------------------------
\* tools: camara_use_cases
\* ---------------------------------------------------------------------------
\* Array.prototype.sort without a compare function, on a sequence of records
\* with the field  text, the string the element converts to: ascending order
\* of code units, stable.  An element's place is the number of elements that
\* go before it.
sortByText(arr) ==
  LET a == << >> \o arr
      before(p) ==
        { q \in DOMAIN a :
            LET c == ordinalCompare(a[q].text, a[p].text)
            IN  c < 0 \/ (c = 0 /\ q < p) }
  IN  << >> \o [ k \in 1..Len(a) |->
                   a[CHOOSE p \in DOMAIN a : Cardinality(before(p)) = k - 1] ]

\* [...new Set(list)]: the first occurrences, in order.
RECURSIVE unique(_)
unique(list) ==
  IF Len(list) <= 1 THEN list
  ELSE LET half == Len(list) \div 2
           left == unique(SubSeq(list, 1, half))
           right == unique(SubSeq(list, half + 1, Len(list)))
       IN  left \o SelectSeq(right, LAMBDA x : x \notin Range(left))

\* STABLE_APIS.flatMap(a => a.industries)
flatIndustries == flat([ i \in 1..Len(STABLE_APIS) |-> STABLE_APIS[i].industries ])

\* [...new Set(STABLE_APIS.flatMap(a => a.industries))].sort()
allIndustries ==
  LET labels == unique(flatIndustries)
      sorted == sortByText([ i \in 1..Len(labels) |->
                               [ text |-> labels[i], value |-> labels[i] ] ])
  IN  [ i \in 1..Len(sorted) |-> sorted[i].value ]

\* The passes of the inner loop in the order of the two loops: the record
\* api  and its label  ind  of each pass.
industryPasses ==
  flat([ i \in 1..Len(STABLE_APIS) |->
           [ j \in 1..Len(STABLE_APIS[i].industries) |->
               [ api |-> STABLE_APIS[i], ind |-> STABLE_APIS[i].industries[j] ] ] ])

\* Mutant of passContinues: the filter is compared as it is written.
passContinues_caseSensitive(ind, industry) ==
  LET key == toLowerCase(ind)
  IN  truthy(industry) /\ ~includes(key, industry[1])

\* The pass of the label  ind  ends at  continue.
passContinues(ind, industry) ==
  LET key == toLowerCase(ind)
  IN  truthy(industry) /\ ~includes(key, toLowerCase(industry[1]))

\* The object industryMap after the loops, as the sequence of its properties
\* [ key, value ] in the order of their creation: a property is created by
\* the first pass with its label that does not continue, and every such pass
\* pushes its entry onto the property's array.
industryLoop(industry) ==
  LET pushing == SelectSeq(industryPasses,
                           LAMBDA p : ~passContinues(p.ind, industry))
      keys == unique([ n \in 1..Len(pushing) |-> pushing[n].ind ])
      pushed(key) == SelectSeq(pushing, LAMBDA p : p.ind = key)
      entries(key) ==
        [ n \in 1..Len(pushed(key)) |->
            [ api |-> pushed(key)[n].api.name,
              slug |-> pushed(key)[n].api.slug,
              use_cases |-> pushed(key)[n].api.useCases ] ]
  IN  flat([ n \in 1..Len(keys) |->
               << [ key |-> keys[n], value |-> << >> \o entries(keys[n]) ] >> ])

\* The string an entry [key, array of objects] converts to in the sort.
entryText(e) ==
  e.key \o "," \o join([ n \in 1..Len(e.value) |-> "[object Object]" ], ",")

useCasesMarkdown(industryMap) ==
  LET sorted == sortByText([ i \in 1..Len(industryMap) |->
                               [ text |-> entryText(industryMap[i]),
                                 value |-> industryMap[i] ] ])
      entryLines(entry) ==
        << "**" \o entry.api \o "** (" \o GRAVE \o entry.slug \o GRAVE \o ")" >>
          \o [ u \in 1..Len(slice(entry.use_cases, 0, 3)) |->
                 "  - " \o entry.use_cases[u] ]
      section(e) ==
        << "### " \o e.key >>
          \o flat([ k \in 1..Len(e.value) |-> entryLines(e.value[k]) ])
          \o << "" >>
      sections == flat([ i \in 1..Len(sorted) |-> section(sorted[i].value) ])
  IN  join(<< "## CAMARA Use Cases by Industry\n" >> \o sections, "\n")

\* `${params.industry}` in a template
industryText(industry) == IF industry = undefined THEN "undefined" ELSE industry[1]

\* The handler: its local  industryMap  and the result it returns.
useCasesTool(params) ==
  LET industryMap == industryLoop(params.industry)
  IN  [ locals |-> [ industryMap |-> industryMap ],
        result |->
          IF Len(industryMap) = 0
          THEN errorResult("No APIs found for industry '"
                             \o industryText(params.industry)
                             \o "'. Available: " \o join(allIndustries, ", "))
          ELSE IF params.response_format = "json"
          THEN textResult(JSONstringify(industryMap), Some(industryMap))
          ELSE textResult(useCasesMarkdown(industryMap), undefined) ]

\* ---------------------------------------------------------------------------
\* services/catalog: markdown of a search; tools: camara_search_apis
\* ---------------------------------------------------------------------------
\* The badges are pictographs outside ASCII and are written as a word in
\* brackets.
formatApiSearchMarkdown(results) ==
  IF results.total = 0 THEN "No CAMARA APIs found matching your query."
  ELSE
    LET itemLines(api) ==
          LET statusBadge == IF api.status = "stable" THEN "[check] Stable"
                             ELSE "[cycle] Initial"
          IN  << "### " \o api.name \o " (v" \o api.version \o ") " \o EM_DASH
                   \o " " \o statusBadge,
                 "**Category:** " \o categoryLabel(api.category),
                 api.description,
                 "- **Repository:** " \o api.repository_url >>
              \o (IF "website_url" \in DOMAIN api /\ api.website_url # ""
                  THEN << "- **Docs:** " \o api.website_url >> ELSE << >>)
              \o << "" >>
    IN  join(<< "## CAMARA API Search Results (" \o String(results.total)
                  \o " found)\n" >>
             \o flat([ n \in 1..Len(results.items) |-> itemLines(results.items[n]) ])
             \o (IF results.has_more
                 THEN << "*Showing " \o String(results.count) \o " of "
                           \o String(results.total) \o " results. Use offset="
                           \o String(results.next_offset) \o " for more.*" >>
                 ELSE << >>),
             "\n")

\* The handler, after  results = searchApis(...) : the result it returns.
searchApisTool(params, results) ==
  IF params.response_format = "json"
  THEN textResult(JSONstringify(results), Some(results))
  ELSE textResult(formatApiSearchMarkdown(results), undefined)

\* ---------------------------------------------------------------------------
\* services/catalog: listCategories; tools: camara_list_categories
\* ---------------------------------------------------------------------------
\* Mutant of listCategories: the initial records are counted but not listed.
listCategories_initialNotListed ==
  [ c \in 1..Len(API_CATEGORIES) |->
      LET id == API_CATEGORIES[c].id
          meta == API_CATEGORIES[c]
          stableInCat == SelectSeq(STABLE_APIS, LAMBDA a : a.category = id)
          initialInCat == SelectSeq(INITIAL_APIS, LAMBDA a : a.category = id)
      IN  [ category_id |-> id,
            label |-> meta.label,
            description |-> meta.description,
            icon |-> meta.icon,
            api_count |-> Len(stableInCat) + Len(initialInCat),
            apis |->
              [ n \in 1..Len(stableInCat) |->
                  [ name |-> stableInCat[n].name, slug |-> stableInCat[n].slug,
                    status |-> stableInCat[n].status,
                    version |-> stableInCat[n].latestVersion ] ] ] ]

listCategories ==
  [ c \in 1..Len(API_CATEGORIES) |->
      LET id == API_CATEGORIES[c].id
          meta == API_CATEGORIES[c]
          stableInCat == SelectSeq(STABLE_APIS, LAMBDA a : a.category = id)
          initialInCat == SelectSeq(INITIAL_APIS, LAMBDA a : a.category = id)
      IN  [ category_id |-> id,
            label |-> meta.label,
            description |-> meta.description,
            icon |-> meta.icon,
            api_count |-> Len(stableInCat) + Len(initialInCat),
            apis |->
              [ n \in 1..Len(stableInCat) |->
                  [ name |-> stableInCat[n].name, slug |-> stableInCat[n].slug,
                    status |-> stableInCat[n].status,
                    version |-> stableInCat[n].latestVersion ] ]
              \o
              [ n \in 1..Len(initialInCat) |->
                  [ name |-> initialInCat[n].name, slug |-> initialInCat[n].slug,
                    status |-> "initial",
                    version |-> initialInCat[n].version ] ] ] ]

formatCategoriesMarkdown(categories) ==
  LET apiLine(api) ==
        LET badge == IF api.status = "stable" THEN "[check]" ELSE "[cycle]"
        IN  "  - " \o badge \o " " \o api.name \o " v" \o api.version
      catLines(cat) ==
        << "### " \o cat.icon \o " " \o cat.label \o " (" \o String(cat.api_count)
             \o " APIs)",
           cat.description >>
          \o [ n \in 1..Len(cat.apis) |-> apiLine(cat.apis[n]) ]
          \o << "" >>
  IN  join(<< "## CAMARA API Categories\n" >>
           \o flat([ c \in 1..Len(categories) |-> catLines(categories[c]) ]),
           "\n")

\* The handler: its local  cats  and the result it returns.
listCategoriesTool(params) ==
  LET cats == << >> \o listCategories
  IN  [ locals |-> [ cats |-> cats ],
        result |->
          IF params.response_format = "json"
          THEN textResult(JSONstringify(cats), Some([ categories |-> cats ]))
          ELSE textResult(formatCategoriesMarkdown(cats), undefined) ]

\* ---------------------------------------------------------------------------
\* tools: camara_generate_client_code
\* ---------------------------------------------------------------------------
\* In the texts of the tools below, characters outside ASCII are written as
\* ASCII text: U+2014 as "~", U+2500 as "-", U+2192 as "->", the warning sign
\* as "[warning]", the ballot box as "[ ]"; the grave accent is written "@".
\* String.prototype.indexOf: the index from 0 of the first occurrence, or -1.
indexOf(s, sub) ==
  LET at == { p \in 0..(Len(s) - Len(sub)) : SubSeq(s, p + 1, p + Len(sub)) = sub }
  IN  IF at = {} THEN -1 ELSE CHOOSE p \in at : \A r \in at : p <= r

\* String.prototype.slice(start, end) with 0 <= start <= end.
sliceString(s, from, to) == SubSeq(s, Min(from, Len(s)) + 1, Min(to, Len(s)))

\* Mutant of beforeFirst: the string is not split.
beforeFirst_whole(s, sep) == s

\* s.split(sep)[0]
beforeFirst(s, sep) ==
  IF indexOf(s, sep) < 0 THEN s ELSE SubSeq(s, 1, indexOf(s, sep))

\* s.split(sep).slice(1).join(sep)
afterFirst(s, sep) ==
  IF indexOf(s, sep) < 0 THEN ""
  ELSE SubSeq(s, indexOf(s, sep) + Len(sep) + 1, Len(s))

\* String.prototype.trim, for strings whose white space is the space.
trim(s) ==
  LET inked == { p \in 1..Len(s) : charAt(s, p) # " " }
  IN  IF inked = {} THEN ""
      ELSE SubSeq(s, CHOOSE p \in inked : \A r \in inked : p <= r,
                     CHOOSE p \in inked : \A r \in inked : p >= r)

\* s.replace(/[^a-zA-Z]/g, "")
RECURSIVE lettersOnly(_)
lettersOnly(s) ==
  IF Len(s) = 0 THEN ""
  ELSE IF Len(s) = 1
  THEN IF \E p \in 1..26 : s = charAt(UpperLetters, p) \/ s = charAt(LowerLetters, p)
       THEN s ELSE ""
  ELSE lettersOnly(SubSeq(s, 1, Len(s) \div 2))
         \o lettersOnly(SubSeq(s, Len(s) \div 2 + 1, Len(s)))

\* STABLE_APIS.find(a => a.slug === slug), null for undefined
findStable(slug) ==
  LET found == SelectSeq(STABLE_APIS, LAMBDA a : a.slug = slug)
  IN  IF found = << >> THEN null ELSE found[1]

\* Mutant of notFoundResult: the error names the slug but lists no slugs.
notFoundResult_noSlugs(slug) ==
  errorResult("API '" \o slug \o "' not found.")

\* The answer of the three tools below to a slug that find does not find.
notFoundResult(slug) ==
  errorResult("API '" \o slug \o "' not found. Valid slugs: " \o validSlugs)

\* The handler: its locals and the result it returns.
generateClientCodeTool(params) ==
  LET api == findStable(params.slug)
  IN  IF api = null
      THEN [ locals |-> [ api |-> null ], result |-> notFoundResult(params.slug) ]
      ELSE
        LET endpoint == IF Len(api.keyEndpoints) > 0 /\ api.keyEndpoints[1] # ""
                        THEN api.keyEndpoints[1] ELSE "POST /api/v1/endpoint"
            method == beforeFirst(endpoint, " ")
            path == trim(beforeFirst(afterFirst(endpoint, " "), " - "))
            isTwoLegged == IF truthy(params.auth_flow)
                           THEN params.auth_flow[1] = "client_credentials"
                           ELSE includes(api.authFlow, "Client Credentials")
            grantType == IF isTwoLegged THEN "client_credentials"
                         ELSE "authorization_code"
            tokenStep ==
              IF isTwoLegged
              THEN "# 2-legged: Client Credentials grant (no user interaction)"
              ELSE "# 3-legged: Authorization Code grant (requires user redirect + consent)"
            curl == join(
          << "#!/bin/bash",
             "# " \o api.name \o " ~ " \o sliceString(api.description, 0, 80),
             "# Docs: " \o api.websiteUrl,
             "",
             "# -- Step 1: Get Access Token --",
             tokenStep,
             "TOKEN=$(curl -s -X POST \"https://${OPERATOR_AUTH_HOST}/oauth2/token\" \\",
             "  -H \"Content-Type: application/x-www-form-urlencoded\" \\",
             "  -d \"grant_type=" \o grantType \o "\" \\",
             "  -d \"client_id=${CLIENT_ID}\" \\",
             "  -d \"client_secret=${CLIENT_SECRET}\""
              \o (IF isTwoLegged THEN " \\"
                 ELSE " \\\n  -d \"code=${AUTH_CODE}\" \\\n  -d \"redirect_uri=${REDIRECT_URI}\" \\"),
             "  | jq -r '.access_token')",
             "",
             "# -- Step 2: Call " \o api.name \o " API --",
             "curl -X " \o method \o " \"https://${OPERATOR_API_HOST}" \o path \o "\" \\",
             "  -H \"Authorization: Bearer ${TOKEN}\" \\",
             "  -H \"Content-Type: application/json\" \\",
             "  -d '{",
             "    \"phoneNumber\": \"+1234567890\"",
             "  }'" >>, "\n")
            python == join(
          << "\"\"\"" \o api.name \o " ~ Python Client",
             sliceString(api.description, 0, 80),
             "Docs: " \o api.websiteUrl,
             "\"\"\"",
             "import os",
             "import requests",
             "",
             "OPERATOR_AUTH_HOST = os.environ[\"OPERATOR_AUTH_HOST\"]",
             "OPERATOR_API_HOST = os.environ[\"OPERATOR_API_HOST\"]",
             "CLIENT_ID = os.environ[\"CLIENT_ID\"]",
             "CLIENT_SECRET = os.environ[\"CLIENT_SECRET\"]",
             "",
             "# -- Step 1: Get Access Token --",
             tokenStep,
             "token_resp = requests.post(",
             "    f\"https://{OPERATOR_AUTH_HOST}/oauth2/token\",",
             "    data={",
             "        \"grant_type\": \"" \o grantType \o "\",",
             "        \"client_id\": CLIENT_ID,",
             "        \"client_secret\": CLIENT_SECRET,",
             "    },",
             ")",
             "token_resp.raise_for_status()",
             "access_token = token_resp.json()[\"access_token\"]",
             "",
             "# -- Step 2: Call " \o api.name \o " API --",
             "resp = requests." \o toLowerCase(method) \o "(",
             "    f\"https://{OPERATOR_API_HOST}" \o path \o "\",",
             "    headers={",
             "        \"Authorization\": f\"Bearer {access_token}\",",
             "        \"Content-Type\": \"application/json\",",
             "    },",
             "    json={\"phoneNumber\": \"+1234567890\"},",
             ")",
             "resp.raise_for_status()",
             "print(resp.json())" >>, "\n")
            typescript == join(
          << "// " \o api.name \o " ~ TypeScript Client",
             "// " \o sliceString(api.description, 0, 80),
             "// Docs: " \o api.websiteUrl,
             "",
             "const OPERATOR_AUTH_HOST = process.env.OPERATOR_AUTH_HOST!;",
             "const OPERATOR_API_HOST = process.env.OPERATOR_API_HOST!;",
             "const CLIENT_ID = process.env.CLIENT_ID!;",
             "const CLIENT_SECRET = process.env.CLIENT_SECRET!;",
             "",
             "// -- Step 1: Get Access Token --",
             tokenStep,
             "const tokenResp = await fetch(@https://${OPERATOR_AUTH_HOST}/oauth2/token@, {",
             "  method: \"POST\",",
             "  headers: { \"Content-Type\": \"application/x-www-form-urlencoded\" },",
             "  body: new URLSearchParams({",
             "    grant_type: \"" \o grantType \o "\",",
             "    client_id: CLIENT_ID,",
             "    client_secret: CLIENT_SECRET,",
             "  }),",
             "});",
             "const { access_token } = await tokenResp.json() as { access_token: string };",
             "",
             "// -- Step 2: Call " \o api.name \o " API --",
             "const resp = await fetch(@https://${OPERATOR_API_HOST}" \o path \o "@, {",
             "  method: \"" \o method \o "\",",
             "  headers: {",
             "    Authorization: @Bearer ${access_token}@,",
             "    \"Content-Type\": \"application/json\",",
             "  },",
             "  body: JSON.stringify({ phoneNumber: \"+1234567890\" }),",
             "});",
             "const data = await resp.json();",
             "console.log(data);" >>, "\n")
            java == join(
          << "// " \o api.name \o " ~ Java Client (Java 11+ HttpClient)",
             "// " \o sliceString(api.description, 0, 80),
             "// Docs: " \o api.websiteUrl,
             "",
             "import java.net.URI;",
             "import java.net.http.*;",
             "import java.net.http.HttpResponse.BodyHandlers;",
             "",
             "public class " \o lettersOnly(api.name) \o "Client {",
             "  public static void main(String[] args) throws Exception {",
             "    var client = HttpClient.newHttpClient();",
             "    String authHost = System.getenv(\"OPERATOR_AUTH_HOST\");",
             "    String apiHost = System.getenv(\"OPERATOR_API_HOST\");",
             "",
             "    // -- Step 1: Get Access Token --",
             "    var tokenReq = HttpRequest.newBuilder()",
             "      .uri(URI.create(\"https://\" + authHost + \"/oauth2/token\"))",
             "      .POST(HttpRequest.BodyPublishers.ofString(",
             "        \"grant_type=" \o grantType \o "\"",
             "        + \"&client_id=\" + System.getenv(\"CLIENT_ID\")",
             "        + \"&client_secret=\" + System.getenv(\"CLIENT_SECRET\")))",
             "      .header(\"Content-Type\", \"application/x-www-form-urlencoded\")",
             "      .build();",
             "    var tokenResp = client.send(tokenReq, BodyHandlers.ofString());",
             "    // Parse access_token from JSON response",
             "",
             "    // -- Step 2: Call " \o api.name \o " API --",
             "    var apiReq = HttpRequest.newBuilder()",
             "      .uri(URI.create(\"https://\" + apiHost + \"" \o path \o "\"))",
             "      ." \o (IF method = "POST" THEN "POST" ELSE "GET") \o "(HttpRequest.BodyPublishers.ofString(",
             "        \"{\\\"phoneNumber\\\": \\\"+1234567890\\\"}\"))",
             "      .header(\"Authorization\", \"Bearer \" + accessToken)",
             "      .header(\"Content-Type\", \"application/json\")",
             "      .build();",
             "    var resp = client.send(apiReq, BodyHandlers.ofString());",
             "    System.out.println(resp.body());",
             "  }",
             "}" >>, "\n")
            code == CASE params.language = "curl" -> curl
                      [] params.language = "python" -> python
                      [] params.language = "typescript" -> typescript
                      [] params.language = "java" -> java
            structured ==
              [ api |-> api.name,
                slug |-> api.slug,
                language |-> params.language,
                auth_flow |-> grantType,
                code |-> code,
                environment_variables |->
                  << "OPERATOR_AUTH_HOST", "OPERATOR_API_HOST", "CLIENT_ID",
                     "CLIENT_SECRET" >>,
                documentation |-> api.websiteUrl,
                repository |-> CAMARA_BASE_URL \o "/" \o api.repository ]
            langLabel == CASE params.language = "curl" -> "Bash (curl)"
                           [] params.language = "python" -> "Python"
                           [] params.language = "typescript" -> "TypeScript"
                           [] params.language = "java" -> "Java"
        IN  [ locals |-> [ api |-> api, endpoint |-> endpoint, method |-> method,
                           path |-> path, isTwoLegged |-> isTwoLegged,
                           code |-> code ],
              result |->
                IF params.response_format = "json"
                THEN textResult(JSONstringify(structured), Some(structured))
                ELSE textResult(
                       join(<< "## " \o api.name \o " ~ " \o langLabel
                                 \o " Client Code\n",
                               "**Auth Flow:** "
                                 \o (IF isTwoLegged
                                     THEN "Client Credentials (2-legged)"
                                     ELSE "Authorization Code (3-legged)"),
                               "**Endpoint:** @" \o endpoint \o "@\n",
                               "### Environment Variables",
                               "@@@",
                               "OPERATOR_AUTH_HOST=auth.operator.example.com",
                               "OPERATOR_API_HOST=api.operator.example.com",
                               "CLIENT_ID=your-client-id",
                               "CLIENT_SECRET=your-client-secret",
                               "@@@\n",
                               "### Code\n",
                               "@@@" \o (IF params.language = "curl" THEN "bash"
                                         ELSE params.language),
                               code,
                               "@@@\n",
                               "**Docs:** " \o api.websiteUrl,
                               "**Repo:** " \o CAMARA_BASE_URL \o "/"
                                 \o api.repository >>,
                            "\n"),
                       undefined) ]

\* ---------------------------------------------------------------------------
\* tools: camara_migration_guide
\* ---------------------------------------------------------------------------
\* The handler: its locals and the result it returns.
migrationGuideTool(params) ==
  LET api == findStable(params.slug)
  IN  IF api = null
      THEN [ locals |-> [ api |-> null ], result |-> notFoundResult(params.slug) ]
      ELSE
        LET fromVersion ==
              IF truthy(params.from_version) THEN params.from_version[1]
              ELSE IF Len(api.previousVersions) > 0 /\ api.previousVersions[1] # ""
              THEN api.previousVersions[1]
              ELSE "0.x"
            toVersion == api.latestVersion
            majorBump == beforeFirst(fromVersion, ".") # beforeFirst(toVersion, ".")
            repositoryUrl == CAMARA_BASE_URL \o "/" \o api.repository
            key_resources ==
              << << "changelog", repositoryUrl \o "/blob/main/CHANGELOG.md" >>,
                 << "api_definitions",
                    repositoryUrl \o "/tree/main/code/API_definitions" >>,
                 << "commonalities", CAMARA_BASE_URL \o "/Commonalities" >>,
                 << "release_notes", repositoryUrl \o "/releases" >> >>
            guide ==
              [ api |-> api.name,
                slug |-> api.slug,
                from_version |-> fromVersion,
                to_version |-> toVersion,
                is_major_upgrade |-> majorBump,
                changelog_url |-> repositoryUrl \o "/blob/main/CHANGELOG.md",
                migration_steps |->
                  << "1. Review the CHANGELOG at " \o CAMARA_BASE_URL \o "/" \o api.repository \o "/blob/main/CHANGELOG.md",
                 "2. Update your OpenAPI spec from " \o CAMARA_BASE_URL \o "/" \o api.repository \o "/tree/main/code/API_definitions",
                 "3. Update endpoint paths: check if base paths changed (v" \o fromVersion \o " -> v" \o toVersion \o ")" >>
                  \o (IF majorBump
                      THEN
                  << "4. [warning] MAJOR VERSION: Check for breaking changes in request/response schemas",
                 "5. [warning] MAJOR VERSION: Verify authentication scopes ~ new scopes may be required",
                 "6. Update error handling ~ error response formats may have changed per CAMARA Commonalities",
                 "7. Test in sandbox environment before production deployment",
                 "8. Update SDK/client library to latest version" >>
                      ELSE
                  << "4. Minor version: backward-compatible changes expected",
                 "5. Check for new optional fields in responses",
                 "6. Test in sandbox to confirm compatibility" >>),
                key_resources |->
                  [ changelog |-> key_resources[1][2],
                    api_definitions |-> key_resources[2][2],
                    commonalities |-> key_resources[3][2],
                    release_notes |-> key_resources[4][2] ],
                commonalities_changes |->
                  << "Error response format aligned with RFC 7807 Problem Details",
                 "CloudEvents v1.0 for event subscriptions",
                 "Standardized device identifier format",
                 "Consistent pagination patterns" >>,
                version_history |-> << toVersion >> \o api.previousVersions ]
        IN  [ locals |-> [ api |-> api, guide |-> guide ],
              result |->
                IF params.response_format = "json"
                THEN textResult(JSONstringify(guide), Some(guide))
                ELSE textResult(
                       join(<< "## " \o api.name \o " ~ Migration Guide (v"
                                 \o fromVersion \o " -> v" \o toVersion \o ")\n",
                               IF majorBump
                               THEN "### [warning] Major Version Upgrade ~ Breaking Changes Expected\n"
                               ELSE "### Minor Version Upgrade ~ Backward Compatible\n",
                               "### Migration Steps" >>
                            \o guide.migration_steps
                            \o << "", "### Commonalities Changes to Watch" >>
                            \o [ n \in 1..Len(guide.commonalities_changes) |->
                                   "- " \o guide.commonalities_changes[n] ]
                            \o << "",
                                  "### Version History",
                                  join([ n \in 1..Len(guide.version_history) |->
                                           (IF n = 1 THEN "-> " ELSE "  ")
                                             \o "v" \o guide.version_history[n]
                                             \o (IF n = 1 THEN " (current)" ELSE "") ],
                                       "\n"),
                                  "",
                                  "### Key Resources" >>
                            \o [ n \in 1..Len(key_resources) |->
                                   "- **" \o key_resources[n][1] \o ":** "
                                     \o key_resources[n][2] ],
                            "\n"),
                       undefined) ]

\* ---------------------------------------------------------------------------
\* tools: camara_integration_checklist
\* ---------------------------------------------------------------------------
\* labels[key] || key
checklistLabel(key) ==
  CASE key = "authentication" -> "Authentication Setup"
    [] key = "implementation" -> "API Implementation"
    [] key = "error_handling" -> "Error Handling"
    [] key = "testing" -> "Testing"
    [] key = "monitoring" -> "Monitoring & Observability"
    [] key = "compliance" -> "Compliance & Privacy"
    [] key = "go_live" -> "Go-Live"
    [] OTHER -> key

\* The handler: its locals and the result it returns.
integrationChecklistTool(params) ==
  LET api == findStable(params.slug)
  IN  IF api = null
      THEN [ locals |-> [ api |-> null ], result |-> notFoundResult(params.slug) ]
      ELSE
        LET isProd == params.environment = "production"
            isTwoLegged == includes(api.authFlow, "Client Credentials")
            isThreeLegged == includes(api.authFlow, "Authorization Code")
            entries ==
              << << "authentication",
                    << "[ ] Register with GSMA Open Gateway aggregator or operator portal",
                       "[ ] Obtain client_id and client_secret" >>
                    \o (IF isTwoLegged THEN << "[ ] Implement Client Credentials (2-legged) token flow" >> ELSE << >>)
                    \o (IF isThreeLegged THEN << "[ ] Implement Authorization Code (3-legged) OIDC flow" >> ELSE << >>)
                    \o (IF isThreeLegged THEN << "[ ] Configure redirect URI for authorization callback" >> ELSE << >>)
                    \o (IF isThreeLegged THEN << "[ ] Implement user consent screen" >> ELSE << >>)
                    \o << "[ ] Implement token refresh/renewal logic",
                          "[ ] Store credentials securely (never in source code)" >> >>,
                 << "implementation",
                    << "[ ] Download OpenAPI spec from " \o CAMARA_BASE_URL \o "/" \o api.repository,
                       "[ ] Generate or write API client for endpoints:" >>
                    \o [ n \in 1..Len(api.keyEndpoints) |-> "    [ ] " \o api.keyEndpoints[n] ]
                    \o << "[ ] Implement request body construction with correct device identifiers",
                          "[ ] Parse response schemas correctly",
                          "[ ] Handle optional/nullable fields gracefully" >> >>,
                 << "error_handling",
                    << "[ ] Handle HTTP 400 ~ Bad Request (invalid parameters)",
                       "[ ] Handle HTTP 401 ~ Unauthorized (token expired/invalid)",
                       "[ ] Handle HTTP 403 ~ Forbidden (insufficient scope/consent)",
                       "[ ] Handle HTTP 404 ~ Not Found (invalid endpoint)",
                       "[ ] Handle HTTP 429 ~ Rate Limited (implement backoff)",
                       "[ ] Handle HTTP 500/503 ~ Server Error (retry with exponential backoff)",
                       "[ ] Parse RFC 7807 Problem Details error responses",
                       "[ ] Implement circuit breaker for operator outages" >> >>,
                 << "testing",
                    << "[ ] Test with operator sandbox environment",
                       "[ ] Verify happy-path responses match OpenAPI schema",
                       "[ ] Test error scenarios (invalid phone, expired token, etc.)",
                       "[ ] Test token refresh flow" >>
                    \o (IF isProd THEN << "[ ] Load test with expected production traffic" >> ELSE << >>)
                    \o (IF isProd THEN << "[ ] Verify rate limits are sufficient for your traffic" >> ELSE << >>) >>,
                 << "monitoring",
                    IF isProd
                    THEN << "[ ] Monitor API latency (p50, p95, p99)",
                            "[ ] Alert on error rate spikes (>1% 5xx errors)",
                            "[ ] Track token renewal success rate",
                            "[ ] Monitor rate limit headroom",
                            "[ ] Log all API calls for audit trail",
                            "[ ] Dashboard for API health metrics" >>
                    ELSE << "[ ] Log API requests and responses for debugging",
                            "[ ] Track error types for troubleshooting" >> >>,
                 << "compliance",
                    IF isProd
                    THEN << "[ ] Review data privacy requirements (GDPR, local regulations)",
                            "[ ] Ensure phone numbers are handled as PII",
                            "[ ] Document data retention policy for API responses",
                            "[ ] Verify consent mechanisms for 3-legged APIs",
                            "[ ] Review CAMARA Commonalities data handling guidelines" >>
                    ELSE << "[ ] Use test phone numbers only (no real user data in sandbox)" >> >>,
                 << "go_live",
                    IF isProd
                    THEN << "[ ] Complete operator production onboarding",
                            "[ ] Switch from sandbox to production credentials",
                            "[ ] Verify production endpoint URLs",
                            "[ ] Gradual rollout (canary -> percentage -> full)",
                            "[ ] Runbook for API degradation scenarios",
                            "[ ] Establish SLA expectations with operator/aggregator" >>
                    ELSE << >> >> >>
            checklist ==
              [ api |-> api.name,
                slug |-> api.slug,
                environment |-> params.environment,
                categories |->
                  [ authentication |-> entries[1][2],
                    implementation |-> entries[2][2],
                    error_handling |-> entries[3][2],
                    testing |-> entries[4][2],
                    monitoring |-> entries[5][2],
                    compliance |-> entries[6][2],
                    go_live |-> entries[7][2] ] ]
            section(entry) ==
              IF Len(entry[2]) = 0 THEN << >>
              ELSE << "### " \o checklistLabel(entry[1]) >> \o entry[2] \o << "" >>
            lines ==
              << "## " \o api.name \o " ~ "
                   \o (IF isProd THEN "Production" ELSE "Sandbox")
                   \o " Integration Checklist\n",
                 "**API:** " \o api.name \o " v" \o api.latestVersion,
                 "**Auth:** " \o api.authFlow,
                 "**Docs:** " \o api.websiteUrl \o "\n" >>
              \o flat([ e \in 1..Len(entries) |-> section(entries[e]) ])
        IN  [ locals |-> [ api |-> api, checklist |-> checklist ],
              result |->
                IF params.response_format = "json"
                THEN textResult(JSONstringify(checklist), Some(checklist))
                ELSE textResult(join(lines, "\n"), undefined) ]

\* ---------------------------------------------------------------------------
\* tools: camara_auth_guide
\* ---------------------------------------------------------------------------
\* Mutant of usedBy: an API is listed under the first flow its authFlow names.
usedBy_first(flow) ==
  LET using == SelectSeq(STABLE_APIS,
                         LAMBDA a : /\ includes(a.authFlow, flow)
                                    /\ \/ flow = "Client Credentials"
                                       \/ ~includes(a.authFlow, "Client Credentials"))
  IN  [ n \in 1..Len(using) |-> using[n].name ]

\* STABLE_APIS.filter(a => a.authFlow.includes(flow)).map(a => a.name)
usedBy(flow) ==
  LET using == SelectSeq(STABLE_APIS, LAMBDA a : includes(a.authFlow, flow))
  IN  [ n \in 1..Len(using) |-> using[n].name ]

\* The handler: its locals and the result it returns.
authGuideTool(params) ==
  LET guide ==
        [ overview |-> "CAMARA uses OIDC/OAuth2 for all API authentication. The Identity and Consent Management (ICM) working group defines the patterns.",
          flows |->
            << [ name |-> "Client Credentials (2-legged)",
                 description |-> "Server-to-server. No user interaction required. Used when the API consumer can identify the device/subscriber through other means (e.g., network-attached device).",
                 grant_type |-> "client_credentials",
                 apis |-> << >> \o usedBy("Client Credentials") ],
               [ name |-> "Authorization Code (3-legged)",
                 description |-> "Requires user consent via redirect. Used when accessing user-specific data that requires explicit permission.",
                 grant_type |-> "authorization_code",
                 apis |-> << >> \o usedBy("Authorization Code") ] >>,
          icm_repository |-> "https://github.com/camaraproject/IdentityAndConsentManagement",
          commonalities_link |-> "https://github.com/camaraproject/Commonalities",
          specific_api |-> IF truthy(params.api_slug)
                           THEN getApiDetail(params.api_slug[1]) ELSE null ]
      lines ==
        << "## CAMARA Authentication Guide\n",
           guide.overview, "",
           "### Client Credentials (2-Legged OAuth2)",
           guide.flows[1].description,
           "**Used by:** " \o join(guide.flows[1].apis, ", "), "",
           "### Authorization Code (3-Legged OIDC)",
           guide.flows[2].description,
           "**Used by:** " \o join(guide.flows[2].apis, ", "), "",
           "### Resources",
           "- ICM Working Group: " \o guide.icm_repository,
           "- Commonalities: " \o guide.commonalities_link >>
        \o (IF guide.specific_api # null
            THEN << "", "### " \o guide.specific_api.name \o " Auth Details",
                    "**Flow:** " \o guide.specific_api.auth_flow,
                    "**Endpoints:** "
                      \o join(guide.specific_api.key_endpoints, "; ") >>
            ELSE << >>)
  IN  [ locals |-> [ guide |-> guide ],
        result |->
          IF params.response_format = "json"
          THEN textResult(JSONstringify(guide), Some(guide))
          ELSE textResult(join(lines, "\n"), undefined) ]

\* ---------------------------------------------------------------------------
\* schemas/tools: the arguments of a request and their validation
\* ---------------------------------------------------------------------------
\* A JSON value of a request: a string, a number (an integer n, or n + 1/2)
\* or an array.
jsonString(s) == [ t |-> "string", s |-> s ]

jsonNumber(n) == [ t |-> "number", n |-> n, half |-> FALSE ]

jsonHalf(n) == [ t |-> "number", n |-> n, half |-> TRUE ]

jsonArray(a) == [ t |-> "array", a |-> a ]

\* The arguments of a request: each key of the schema is absent (undefined)
\* or has a JSON value;  others  is the set of the keys the schema does not
\* have.
\* z.string()
isString(v) == v.t = "string"

\* z.number().int()
isInt(v) == v.t = "number" /\ ~v.half

\* z.enum(values)
isEnum(v, values) == isString(v) /\ v.s \in values

\* z.enum(["markdown", "json"]).default("markdown")
parseFormat(opt) ==
  IF opt = undefined THEN [ success |-> TRUE, data |-> "markdown" ]
  ELSE IF isEnum(opt[1], { "markdown", "json" })
  THEN [ success |-> TRUE, data |-> opt[1].s ]
  ELSE [ success |-> FALSE ]

\* Mutant of SearchCategoryEnum: the enum has no "identity".
SearchCategoryEnum_seven ==
  << "auth-fraud", "location", "communication", "communication-quality",
     "device-info", "computing", "payments" >>

\* The values of the category enum of SearchApisSchema.
SearchCategoryEnum ==
  << "auth-fraud", "location", "communication", "communication-quality",
     "device-info", "computing", "payments", "identity" >>

\* Mutant of SearchApisSchema: limit has no upper bound and no integer test.
SearchApisSchema_anyLimit(raw) ==
  LET okQuery == raw.query = undefined
                   \/ (isString(raw.query[1]) /\ Len(raw.query[1].s) <= 200)
      okCategory == raw.category = undefined
                      \/ isEnum(raw.category[1], Range(SearchCategoryEnum))
      okStatus == raw.status = undefined
                    \/ isEnum(raw.status[1], { "stable", "initial" })
      okLimit == raw.limit = undefined
                   \/ (raw.limit[1].t = "number" /\ raw.limit[1].n >= 1)
      okOffset == raw.offset = undefined
                    \/ (isInt(raw.offset[1]) /\ raw.offset[1].n >= 0)
      format == parseFormat(raw.response_format)
  IN  IF okQuery /\ okCategory /\ okStatus /\ okLimit /\ okOffset
           /\ format.success /\ raw.others = {}
      THEN [ success |-> TRUE,
             data |->
               [ query |-> IF raw.query = undefined THEN undefined
                           ELSE Some(raw.query[1].s),
                 category |-> IF raw.category = undefined THEN undefined
                              ELSE Some(raw.category[1].s),
                 status |-> IF raw.status = undefined THEN undefined
                            ELSE Some(raw.status[1].s),
                 limit |-> IF raw.limit = undefined THEN 20 ELSE raw.limit[1].n,
                 offset |-> IF raw.offset = undefined THEN 0 ELSE raw.offset[1].n,
                 response_format |-> format.data ] ]
      ELSE [ success |-> FALSE ]

\* SearchApisSchema.safeParse(raw)
SearchApisSchema(raw) ==
  LET okQuery == raw.query = undefined
                   \/ (isString(raw.query[1]) /\ Len(raw.query[1].s) <= 200)
      okCategory == raw.category = undefined
                      \/ isEnum(raw.category[1], Range(SearchCategoryEnum))
      okStatus == raw.status = undefined
                    \/ isEnum(raw.status[1], { "stable", "initial" })
      okLimit == raw.limit = undefined
                   \/ (isInt(raw.limit[1]) /\ raw.limit[1].n >= 1
                         /\ raw.limit[1].n <= 100)
      okOffset == raw.offset = undefined
                    \/ (isInt(raw.offset[1]) /\ raw.offset[1].n >= 0)
      format == parseFormat(raw.response_format)
  IN  IF okQuery /\ okCategory /\ okStatus /\ okLimit /\ okOffset
           /\ format.success /\ raw.others = {}
      THEN [ success |-> TRUE,
             data |->
               [ query |-> IF raw.query = undefined THEN undefined
                           ELSE Some(raw.query[1].s),
                 category |-> IF raw.category = undefined THEN undefined
                              ELSE Some(raw.category[1].s),
                 status |-> IF raw.status = undefined THEN undefined
                            ELSE Some(raw.status[1].s),
                 limit |-> IF raw.limit = undefined THEN 20 ELSE raw.limit[1].n,
                 offset |-> IF raw.offset = undefined THEN 0 ELSE raw.offset[1].n,
                 response_format |-> format.data ] ]
      ELSE [ success |-> FALSE ]

\* CompareApisSchema.safeParse(raw)
CompareApisSchema(raw) ==
  LET okSlugs == /\ raw.slugs # undefined
                 /\ raw.slugs[1].t = "array"
                 /\ \A n \in DOMAIN raw.slugs[1].a : isString(raw.slugs[1].a[n])
                 /\ Len(raw.slugs[1].a) >= 2
                 /\ Len(raw.slugs[1].a) <= 5
      format == parseFormat(raw.response_format)
  IN  IF okSlugs /\ format.success /\ raw.others = {}
      THEN [ success |-> TRUE,
             data |-> [ slugs |-> [ n \in DOMAIN raw.slugs[1].a |-> raw.slugs[1].a[n].s ],
                        response_format |-> format.data ] ]
      ELSE [ success |-> FALSE ]

\* The answer to a request whose arguments fail the tool's inputSchema: the
\* handler is not called.
invalidParams == [ invalidParams |-> TRUE ]

\* ---------------------------------------------------------------------------
\* index: the fetch handler of the worker
\* ---------------------------------------------------------------------------
\* The entries of CORS_HEADERS in the order of its keys.
CORS_HEADERS ==
  << << "Access-Control-Allow-Origin", "*" >>,
     << "Access-Control-Allow-Methods", "GET, POST, DELETE, OPTIONS" >>,
     << "Access-Control-Allow-Headers",
        "Content-Type, mcp-session-id, mcp-protocol-version" >>,
     << "Access-Control-Expose-Headers", "mcp-session-id" >>,
     << "Access-Control-Max-Age", "86400" >> >>

\* new Headers(init): header names are case-insensitive and kept in lower
\* case; of two entries with one name the later one is kept here, as by set.
Headers(init) ==
  [ name \in { toLowerCase(init[i][1]) : i \in DOMAIN init } |->
      LET places == { i \in DOMAIN init : toLowerCase(init[i][1]) = name }
      IN  init[CHOOSE i \in places : \A k \in places : k <= i][2] ]

\* Mutant of HeadersSet: a header that is present keeps its value.
HeadersSet_keep(headers, key, value) ==
  IF toLowerCase(key) \in DOMAIN headers THEN headers
  ELSE [ name \in DOMAIN headers \cup { toLowerCase(key) } |->
           IF name = toLowerCase(key) THEN value ELSE headers[name] ]

\* headers.set(key, value)
HeadersSet(headers, key, value) ==
  [ name \in DOMAIN headers \cup { toLowerCase(key) } |->
      IF name = toLowerCase(key) THEN value ELSE headers[name] ]

\* new Response(body, { status, statusText, headers })
Response(body, status, statusText, headers) ==
  [ body |-> body, status |-> status, statusText |-> statusText,
    headers |-> headers ]

corsJson(data, status) ==
  Response(JSONstringify(data), status, "",
           Headers(<< << "Content-Type", "application/json" >> >> \o CORS_HEADERS))

\* The loop of addCorsHeaders from the entry  i  of CORS_HEADERS on.
RECURSIVE setCorsFrom(_, _)
setCorsFrom(headers, i) ==
  IF i > Len(CORS_HEADERS) THEN headers
  ELSE setCorsFrom(HeadersSet(headers, CORS_HEADERS[i][1], CORS_HEADERS[i][2]),
                   i + 1)

addCorsHeaders(response) ==
  Response(response.body, response.status, response.statusText,
           setCorsFrom(response.headers, 1))

\* The document of GET /health.
healthDocument ==
  [ status |-> "ok",
    server |-> "camara-mcp-server",
    version |-> "2.0.0",
    runtime |-> "cloudflare-workers",
    tools |-> 13,
    resources |-> 18,
    prompts |-> 6,
    stable_apis |-> 10,
    total_apis |-> 60 ]

\* The names registerAllTools registers, as listed by GET /.
toolNames ==
  << "camara_search_apis", "camara_get_api_detail", "camara_list_categories",
     "camara_get_release_info", "camara_list_working_groups",
     "camara_getting_started", "camara_gsma_info", "camara_compare_apis",
     "camara_auth_guide", "camara_use_cases", "camara_generate_client_code",
     "camara_migration_guide", "camara_integration_checklist" >>

\* The document of GET /.
serverInfo ==
  [ name |-> "CAMARA MCP Server",
    description |->
      "Remote MCP server for the CAMARA Project ~ The Telco Global API Alliance",
    version |-> "2.0.0",
    runtime |-> "cloudflare-workers",
    mcp_endpoint |-> "/mcp",
    health_endpoint |-> "/health",
    tools |-> toolNames,
    documentation |->
      [ camara_project |-> "https://camaraproject.org",
        github |-> "https://github.com/camaraproject",
        gsma_open_gateway |->
          "https://www.gsma.com/solutions-and-impact/gsma-open-gateway" ] ]

\* The origin of the worker in the URLs of the requests.
Origin == "https://camara.example"

\* new URL(request.url).pathname for a URL of the worker: the part after the
\* origin up to the query, "/" if that part is empty.
pathname(url) ==
  LET rest == SubSeq(url, Len(Origin) + 1, Len(url))
      path == beforeFirst(beforeFirst(rest, "?"), "#")
  IN  IF path = "" THEN "/" ELSE path

\* The contents a spec resource returns for the stable record it was
\* registered for.
specResourceContents(api) ==
  << [ uri |-> "camara://spec/" \o api.slug,
       mimeType |-> "text/markdown",
       text |->
         join(<< "# " \o api.name \o " " \o EM_DASH \o " v" \o api.latestVersion
                   \o " (Stable)",
                 "",
                 api.description,
                 "",
                 "## Endpoints" >>
              \o [ i \in DOMAIN api.keyEndpoints |->
                     "- " \o GRAVE \o api.keyEndpoints[i] \o GRAVE ]
              \o << "",
                    "## Authentication",
                    api.authFlow,
                    "",
                    "## HTTP Methods",
                    join(api.httpMethods, ", "),
                    "",
                    "## Use Cases" >>
              \o [ i \in DOMAIN api.useCases |-> "- " \o api.useCases[i] ]
              \o << "",
                    "## Target Industries",
                    join(api.industries, ", "),
                    "",
                    "## Links",
                    "- **Repository:** " \o CAMARA_BASE_URL \o "/" \o api.repository,
                    "- **Documentation:** " \o api.websiteUrl,
                    "- **OpenAPI Spec:** " \o CAMARA_BASE_URL \o "/"
                      \o api.repository \o "/tree/main/code/API_definitions",
                    "",
                    "## Version History",
                    "Current: v" \o api.latestVersion,
                    "Previous: " \o join(api.previousVersions, ", ") >>,
              "\n") ] >>

\* registerAllResources, its loop over STABLE_APIS: one spec resource per
\* stable record, each with the record its handler closes over.
specResources ==
  << >> \o [ i \in DOMAIN STABLE_APIS |->
               [ name |-> "spec-" \o STABLE_APIS[i].slug,
                 uri |-> "camara://spec/" \o STABLE_APIS[i].slug,
                 api |-> STABLE_APIS[i] ] ]

\* createMcpServer(): a new McpServer with the tools and the spec resources
\* registered.
createMcpServer(object) ==
  [ object |-> object,
    serverInfo |-> [ name |-> "camara-mcp-server", version |-> "2.0.0" ],
    tools |-> toolNames,
    resources |-> specResources ]

\* new WebStandardStreamableHTTPServerTransport({ sessionIdGenerator:
\* undefined, enableJsonResponse: true })
newTransport(object) ==
  [ object |-> object,
    sessionIdGenerator |-> undefined,
    enableJsonResponse |-> TRUE,
    sessionId |-> undefined ]

\* The handler registered for a tool, run on the parsed arguments: its
\* result.  The handlers of the four tools without catalog data are not
\* modelled and answer with an empty text.
callTool(name, params) ==
  CASE name = "camara_search_apis" ->
         CHOOSE toolResult \in
           { searchApisTool(params, results) :
               results \in
                 { searchApisReturn(comb, params.limit, params.offset) :
                     comb \in { combinedArray(params.query, params.category,
                                              params.status) } } } : TRUE
    [] name = "camara_get_api_detail" -> getApiDetailTool(params).result
    [] name = "camara_list_categories" -> listCategoriesTool(params).result
    [] name = "camara_compare_apis" -> compareApisTool(params).result
    [] name = "camara_auth_guide" -> authGuideTool(params).result
    [] name = "camara_use_cases" -> useCasesTool(params).result
    [] name = "camara_generate_client_code" -> generateClientCodeTool(params).result
    [] name = "camara_migration_guide" -> migrationGuideTool(params).result
    [] name = "camara_integration_checklist" ->
         integrationChecklistTool(params).result
    [] OTHER -> textResult("", undefined)

\* The arguments of a tools/call request after the tool's inputSchema: the
\* arguments of camara_search_apis go through SearchApisSchema, those of the
\* other tools are taken as they are.
parseArguments(name, arguments) ==
  IF name = "camara_search_apis" THEN SearchApisSchema(arguments)
  ELSE [ success |-> TRUE, data |-> arguments ]

isToolsCall(request) ==
  /\ request.method = "POST"
  /\ request.body # null
  /\ request.body.method = "tools/call"

isResourceRead(request) ==
  /\ request.method = "POST"
  /\ request.body # null
  /\ request.body.method = "resources/read"

\* The result of resources/read: the contents of the resource of the server
\* that is registered with the uri; the SDK answers a uri that no resource
\* of the server has with an error, kept here as the uri it did not find.
readResource(server, uri) ==
  LET found == SelectSeq(server.resources, LAMBDA r : r.uri = uri)
  IN  IF found = << >> THEN [ resourceNotFound |-> uri ]
      ELSE [ contents |-> specResourceContents(found[1].api) ]

\* The Response of transport.handleRequest(request) when it does not throw.
\* The transport is the SDK's: the status and the headers of its Response are
\* the outcome's; a tools/call answered with 200 carries the JSON-RPC result
\* of the tool, a resources/read the contents of the resource of the server
\* the transport is connected to.
handleRequest(server, request, outcome) ==
  IF isToolsCall(request) /\ outcome.status = 200
  THEN LET parsed == parseArguments(request.body.params.name,
                                    request.body.params.arguments)
       IN  Response(JSONstringify(
                      [ jsonrpc |-> "2.0",
                        id |-> request.body.id,
                        result |-> IF parsed.success
                                   THEN callTool(request.body.params.name,
                                                 parsed.data)
                                   ELSE invalidParams ]),
                    200, "", Headers(outcome.headers))
  ELSE IF isResourceRead(request) /\ outcome.status = 200
  THEN Response(JSONstringify(
                  [ jsonrpc |-> "2.0",
                    id |-> request.body.id,
                    result |-> readResource(server, request.body.params.uri) ]),
                200, "", Headers(outcome.headers))
  ELSE Response(null, outcome.status, "", Headers(outcome.headers))

\* Mutant of internalError: the message of the error is left out.
internalError_unknown(error) ==
  corsJson([ jsonrpc |-> "2.0",
             error |-> [ code |-> -32603,
                         message |-> "Internal error: Unknown error" ],
             id |-> null ],
           500)

\* The catch block of the /mcp branch.
internalError(error) ==
  LET message == IF error.instanceofError THEN error.message
                 ELSE "Unknown error"
  IN  corsJson([ jsonrpc |-> "2.0",
                 error |-> [ code |-> -32603,
                             message |-> "Internal error: " \o message ],
                 id |-> null ],
               500)

\* Mutant of fetchBefore: only POST reaches the /mcp branch.
fetchBefore_postOnly(request) ==
  LET path == pathname(request.url)
  IN  IF request.method = "OPTIONS"
      THEN Some(Response(null, 204, "", Headers(CORS_HEADERS)))
      ELSE IF path = "/health" /\ request.method = "GET"
      THEN Some(corsJson(healthDocument, 200))
      ELSE IF path = "/" /\ request.method = "GET"
      THEN Some(corsJson(serverInfo, 200))
      ELSE IF path = "/mcp" /\ request.method = "POST"
      THEN undefined
      ELSE Some(corsJson([ error |-> "Not found" ], 404))

\* fetch outside its /mcp branch: the Response it returns, or undefined when
\* the request goes to the /mcp branch.
fetchBefore(request) ==
  LET path == pathname(request.url)
  IN  IF request.method = "OPTIONS"
      THEN Some(Response(null, 204, "", Headers(CORS_HEADERS)))
      ELSE IF path = "/health" /\ request.method = "GET"
      THEN Some(corsJson(healthDocument, 200))
      ELSE IF path = "/" /\ request.method = "GET"
      THEN Some(corsJson(serverInfo, 200))
      ELSE IF path = "/mcp"
      THEN undefined
      ELSE Some(corsJson([ error |-> "Not found" ], 404))

\* The catalog arrays after the tool call of a request: a search leaves what
\* searchApis leaves, the other handlers write to no array of the module.
stableAfterRequest(request, outcome) ==
  IF /\ isToolsCall(request)
     /\ outcome.status = 200
     /\ request.body.params.name = "camara_search_apis"
     /\ parseArguments(request.body.params.name,
                       request.body.params.arguments).success
  THEN LET p == parseArguments(request.body.params.name,
                               request.body.params.arguments).data
       IN  stableAfterSearch(p.query, p.category, p.status)
  ELSE STABLE_APIS

initialAfterRequest(request, outcome) ==
  IF /\ isToolsCall(request)
     /\ outcome.status = 200
     /\ request.body.params.name = "camara_search_apis"
     /\ parseArguments(request.body.params.name,
                       request.body.params.arguments).success
  THEN LET p == parseArguments(request.body.params.name,
                               request.body.params.arguments).data
       IN  initialAfterSearch(p.query, p.category, p.status)
  ELSE INITIAL_APIS

\* The Response of fetch to a request that is served from its first to its
\* last step with no step of another request between.
fetchWhole(request, outcome) ==
  IF fetchBefore(request) # undefined THEN fetchBefore(request)[1]
  ELSE IF outcome.throws # "none" THEN internalError(outcome.thrown)
  ELSE addCorsHeaders(handleRequest(createMcpServer(0), request, outcome))

\* ---------------------------------------------------------------------------
\* Calls against the service
\* ---------------------------------------------------------------------------
VARIABLES
  args,         \* the arguments of the last searchApis call, or undefined
  combined,     \* the local  combined  of that call at its return
  response,     \* the value that call returned
  start,        \* the offset of the first searchApis call
  pages,        \* the items of the first call and of the next-page calls
  calls,        \* the number of those calls
  earlier,      \* the value an earlier call with the arguments  args  returned
  between,      \* the number of other calls since the first call
  detailItem,   \* the search item whose slug getApiDetail was called with
  detail,       \* the value getApiDetail returned
  scoreArgs,    \* the arguments of the searchScore call, or undefined
  scoreValue,   \* the value searchScore returned
  tool,         \* the name and the parameters of the tool call, or undefined
  locals,       \* the locals of the tool's handler at its return
  result,       \* the ToolResult the handler returned
  request,      \* the name and the arguments of the request, or undefined
  inflight,     \* the fetch calls that have begun, by request number
  created,      \* the number of objects the fetch calls have constructed
  alone         \* the Response to each input when it is served alone

catalogVars == << STABLE_APIS, INITIAL_APIS, API_CATEGORIES >>

searchVars == << args, combined, response, start, pages, calls >>

repeatVars == << earlier, between >>

detailVars == << detailItem, detail >>

scoreVars == << scoreArgs, scoreValue >>

toolVars == << tool, locals, result, request >>

httpVars == << inflight, created, alone >>

vars ==
  << catalogVars, searchVars, repeatVars, detailVars, scoreVars, toolVars,
     httpVars >>

\* The arguments of a camara_search_apis request that names at most the
\* status and the format.
searchArguments(status, format) ==
  [ query |-> undefined, category |-> undefined, status |-> status,
    limit |-> undefined, offset |-> undefined, response_format |-> format,
    others |-> {} ]

\* A JSON-RPC tools/call message.
toolsCall(name, arguments) ==
  [ jsonrpc |-> "2.0", id |-> 1, method |-> "tools/call",
    params |-> [ name |-> name, arguments |-> arguments ] ]

\* A JSON-RPC resources/read message.
resourcesRead(uri) ==
  [ jsonrpc |-> "2.0", id |-> 1, method |-> "resources/read",
    params |-> [ uri |-> uri ] ]

\* The searches of the bodies: no filter and each status, in json and, with
\* the format omitted, in markdown.
SearchBodies ==
  { toolsCall("camara_search_apis", searchArguments(status, format)) :
      status \in { undefined, Some(jsonString("stable")),
                   Some(jsonString("initial")) },
      format \in { undefined, Some(jsonString("json")) } }

ToolCallBodies ==
  SearchBodies
    \cup { toolsCall("camara_list_categories", [ response_format |-> "json" ]),
           toolsCall("camara_get_api_detail",
                     [ slug |-> "sim-swap", response_format |-> "json" ]),
           toolsCall("camara_gsma_info", [ response_format |-> "markdown" ]),
           resourcesRead("camara://spec/sim-swap") }

Methods == { "GET", "POST", "OPTIONS", "DELETE", "PUT" }

Urls ==
  { Origin, Origin \o "/", Origin \o "/health", Origin \o "/health?verbose=1",
    Origin \o "/health/", Origin \o "/mcp", Origin \o "/mcp?session=1",
    Origin \o "/mcp/", Origin \o "/other" }

\* Requests: every method on every URL without a body, and the tool calls
\* posted to /mcp.
HttpRequests ==
  [ method : Methods, url : Urls, body : { null } ]
    \cup [ method : { "POST" }, url : { Origin \o "/mcp" }, body : ToolCallBodies ]

\* What the SDK does with a request: whether createMcpServer, connect or
\* handleRequest throws and what is thrown, and the status and the headers of
\* the Response of handleRequest when nothing throws.
answers(status, headers) ==
  [ throws |-> "none", thrown |-> null, status |-> status, headers |-> headers ]

throwing(where, thrown) ==
  [ throws |-> where, thrown |-> thrown, status |-> 200, headers |-> << >> ]

Error(message) == [ instanceofError |-> TRUE, message |-> message ]

\* A thrown value that is no Error, though it has a message.
notAnError == [ instanceofError |-> FALSE, message |-> "not an Error" ]

TransportOutcomes ==
  { answers(200, << << "Content-Type", "application/json" >> >>),
    answers(200, << << "content-type", "application/json" >>,
                    << "access-control-allow-origin", "https://app.example" >>,
                    << "Access-Control-Max-Age", "0" >>,
                    << "ACCESS-CONTROL-EXPOSE-HEADERS", "x-other" >> >>),
    answers(202, << >>),
    answers(405, << << "Allow", "GET, POST, DELETE" >>,
                    << "Content-Type", "application/json" >> >>),
    throwing("createMcpServer", Error("Tool camara_search_apis is already registered")),
    throwing("connect", Error("Transport already started")),
    throwing("handleRequest", Error("Unexpected end of JSON input")),
    throwing("handleRequest", notAnError) }

\* The requests and outcomes of the concurrent calls: searches that read both
\* arrays of the catalog, a categories call, the health check, and a request
\* whose handling throws.
ConcurrentInputs ==
  { [ request |-> [ method |-> "POST", url |-> Origin \o "/mcp", body |-> body ],
      outcome |-> answers(200, << << "Content-Type", "application/json" >> >>) ] :
      body \in { toolsCall("camara_search_apis",
                           searchArguments(undefined, Some(jsonString("json")))),
                 toolsCall("camara_search_apis",
                           searchArguments(Some(jsonString("initial")), undefined)),
                 toolsCall("camara_search_apis",
                           searchArguments(Some(jsonString("stable")),
                                           Some(jsonString("json")))),
                 toolsCall("camara_list_categories",
                           [ response_format |-> "json" ]),
                 resourcesRead("camara://spec/device-swap") } }
    \cup { [ request |-> [ method |-> "GET", url |-> Origin \o "/health",
                           body |-> null ],
             outcome |-> answers(200, << >>) ],
           [ request |-> [ method |-> "POST", url |-> Origin \o "/mcp",
                           body |-> null ],
             outcome |-> throwing("handleRequest",
                                  Error("Unexpected end of JSON input")) ] }

MaxRequests == 2

Init ==
  /\ STABLE_APIS = StableCatalog
  /\ INITIAL_APIS = InitialCatalog
  /\ API_CATEGORIES = CategoryCatalog
  /\ args = undefined
  /\ combined = << >>
  /\ response = null
  /\ start = 0
  /\ pages = << >>
  /\ calls = 0
  /\ earlier = null
  /\ between = 0
  /\ detailItem = null
  /\ detail = null
  /\ scoreArgs = undefined
  /\ scoreValue = 0
  /\ tool = undefined
  /\ locals = null
  /\ result = null
  /\ request = undefined
  /\ inflight = [ id \in 1..MaxRequests |-> null ]
  /\ created = 0
  /\ alone = [ input \in ConcurrentInputs |->
                 fetchWhole(input.request, input.outcome) ]

\* The first searchApis call, with any arguments.
SearchCall ==
  /\ args = undefined
  /\ \E query \in Queries, category \in Categories, status \in Statuses,
        limit \in Limits, offset \in Offsets :
       /\ args' = Some([ query |-> query, category |-> category,
                         status |-> status, limit |-> limit, offset |-> offset ])
       /\ combined' = combinedArray(query, category, status)
       /\ response' = searchApisReturn(combined', limit, offset)
       /\ STABLE_APIS' = stableAfterSearch(query, category, status)
       /\ INITIAL_APIS' = initialAfterSearch(query, category, status)
       /\ UNCHANGED API_CATEGORIES
       /\ start' = offset
       /\ pages' = response'.items
  /\ calls' = 1
  /\ UNCHANGED << repeatVars, detailVars, scoreVars, toolVars, httpVars >>

\* The caller follows next_offset: the same arguments, the offset replaced.
NextPageCall ==
  /\ args # undefined
  /\ response.has_more
  /\ LET a == args[1]
     IN  /\ args' = Some([ a EXCEPT !.offset = response.next_offset ])
         /\ combined' = combinedArray(a.query, a.category, a.status)
         /\ response' = searchApisReturn(combined', a.limit, response.next_offset)
         /\ STABLE_APIS' = stableAfterSearch(a.query, a.category, a.status)
         /\ INITIAL_APIS' = initialAfterSearch(a.query, a.category, a.status)
         /\ UNCHANGED API_CATEGORIES
  /\ pages' = pages \o response'.items
  /\ calls' = calls + 1
  /\ UNCHANGED << start, repeatVars, detailVars, scoreVars, toolVars,
                  httpVars >>

\* Another request calls searchApis; the value returned goes to that request,
\* what stays behind is the module state.
OtherArgs ==
  { [ query |-> undefined, category |-> undefined, status |-> undefined ],
    [ query |-> Some("fraud"), category |-> Some("auth-fraud"),
      status |-> undefined ],
    [ query |-> Some("swap"), category |-> undefined,
      status |-> Some("stable") ] }

MaxBetween == 1

OtherCall ==
  /\ args # undefined
  /\ earlier = null
  /\ between < MaxBetween
  /\ \E o \in OtherArgs :
       /\ STABLE_APIS' = stableAfterSearch(o.query, o.category, o.status)
       /\ INITIAL_APIS' = initialAfterSearch(o.query, o.category, o.status)
       /\ UNCHANGED API_CATEGORIES
  /\ between' = between + 1
  /\ UNCHANGED << searchVars, earlier, detailVars, scoreVars, toolVars,
                  httpVars >>

\* The first call is made again with identical arguments.
RepeatCall ==
  /\ args # undefined
  /\ earlier = null
  /\ LET a == args[1]
     IN  /\ combined' = combinedArray(a.query, a.category, a.status)
         /\ response' = searchApisReturn(combined', a.limit, a.offset)
         /\ STABLE_APIS' = stableAfterSearch(a.query, a.category, a.status)
         /\ INITIAL_APIS' = initialAfterSearch(a.query, a.category, a.status)
         /\ UNCHANGED API_CATEGORIES
  /\ earlier' = response
  /\ UNCHANGED << args, start, pages, calls, between, detailVars, scoreVars,
                  toolVars, httpVars >>

\* getApiDetail is called with the slug of an item of the search result.
GetDetailCall ==
  /\ args # undefined
  /\ detailItem = null
  /\ \E i \in 1..Len(response.items) :
       /\ detailItem' = response.items[i]
       /\ detail' = getApiDetail(response.items[i].slug)
  /\ UNCHANGED << catalogVars, searchVars, repeatVars, scoreVars, toolVars,
                  httpVars >>

\* Arguments of a call of searchApis from code, not through the schema of the
\* tool: limits and offsets inside and outside the tool's ranges.
DirectLimits == { -1, 0, 1, 5, MAX_LIMIT, MAX_LIMIT + 1 }

DirectOffsets == { -5, -1, 0, 3 }

\* searchApis is called directly.
DirectSearchCall ==
  /\ args = undefined
  /\ \E query \in Queries, category \in { undefined, Some("auth-fraud") },
        status \in Statuses, limit \in DirectLimits, offset \in DirectOffsets :
       /\ args' = Some([ query |-> query, category |-> category,
                         status |-> status, limit |-> limit, offset |-> offset ])
       /\ combined' = combinedArray(query, category, status)
       /\ response' = searchApisReturn(combined', limit, offset)
       /\ STABLE_APIS' = stableAfterSearch(query, category, status)
       /\ INITIAL_APIS' = initialAfterSearch(query, category, status)
       /\ UNCHANGED API_CATEGORIES
       /\ start' = offset
       /\ pages' = response'.items
  /\ calls' = 1
  /\ UNCHANGED << repeatVars, detailVars, scoreVars, toolVars, httpVars >>

\* searchScore is called with a catalog object and a query string.
ScoreCall ==
  /\ scoreArgs = undefined
  /\ \E api \in CatalogObjects, query \in ScoreQueries :
       /\ scoreArgs' = Some([ api |-> api, query |-> query ])
       /\ scoreValue' = searchScore(api, query)
  /\ UNCHANGED << catalogVars, searchVars, repeatVars, detailVars, toolVars,
                  httpVars >>

\* ---------------------------------------------------------------------------
\* Tool calls
\* ---------------------------------------------------------------------------
ResponseFormats == { "markdown", "json" }

StableSlugs == { StableCatalog[i].slug : i \in DOMAIN StableCatalog }

InitialSlugs == { InitialCatalog[i].slug : i \in DOMAIN InitialCatalog }

upperChar ==
  [ c \in { charAt(LowerLetters, i) : i \in 1..26 } |->
      charAt(UpperLetters, CHOOSE i \in 1..26 : charAt(LowerLetters, i) = c) ]

\* s with its first letter in upper case.
upperFirst(s) == upperChar[charAt(s, 1)] \o SubSeq(s, 2, Len(s))

\* Slugs for the lookup: the stable and the initial slugs, other spellings
\* and proper substrings of the stable slugs, a name, an unknown slug.
DetailSlugs ==
  StableSlugs \cup InitialSlugs
    \cup { upperFirst(s) : s \in StableSlugs }
    \cup { SubSeq(s, 1, Len(s) - 1) : s \in StableSlugs }
    \cup { SubSeq(s, 2, Len(s)) : s \in StableSlugs }
    \cup { "SIM-SWAP", "SIM Swap", "not-a-real-slug", " " }

GetApiDetailTool ==
  /\ tool = undefined
  /\ \E slug \in DetailSlugs, format \in ResponseFormats :
       LET params == [ slug |-> slug, response_format |-> format ]
           r == getApiDetailTool(params)
       IN  /\ tool' = Some([ name |-> "camara_get_api_detail", params |-> params ])
           /\ locals' = r.locals
           /\ result' = r.result
  /\ UNCHANGED << catalogVars, searchVars, repeatVars, detailVars, scoreVars,
                  request, httpVars >>

MinSlugs == 2

MaxSlugs == 5

\* Slugs for the comparison: stable ones, an initial one, an unknown one.
CompareSlugs ==
  { "sim-swap", "device-swap", "location-verification", "location-retrieval",
    "not-a-real-slug" }

SlugArrays == UNION { [ 1..n -> CompareSlugs ] : n \in MinSlugs..MaxSlugs }

CompareApisTool ==
  /\ tool = undefined
  /\ \E slugs \in SlugArrays, format \in ResponseFormats :
       LET params == [ slugs |-> slugs, response_format |-> format ]
           r == compareApisTool(params)
       IN  /\ tool' = Some([ name |-> "camara_compare_apis", params |-> params ])
           /\ locals' = r.locals
           /\ result' = r.result
  /\ UNCHANGED << catalogVars, searchVars, repeatVars, detailVars, scoreVars,
                  request, httpVars >>

\* Industry filters: absent, empty, parts of labels in either case, a whole
\* label, and one that occurs in no label.
IndustryFilters ==
  { undefined, Some(""), Some("banking"), Some("BANK"), Some("e"), Some("in"),
    Some("Device Finance"), Some("iot"), Some("zzz") }

UseCasesTool ==
  /\ tool = undefined
  /\ \E industry \in IndustryFilters, format \in ResponseFormats :
       LET params == [ industry |-> industry, response_format |-> format ]
           r == useCasesTool(params)
       IN  /\ tool' = Some([ name |-> "camara_use_cases", params |-> params ])
           /\ locals' = r.locals
           /\ result' = r.result
  /\ UNCHANGED << catalogVars, searchVars, repeatVars, detailVars, scoreVars,
                  request, httpVars >>

ListCategoriesTool ==
  /\ tool = undefined
  /\ \E format \in ResponseFormats :
       LET params == [ response_format |-> format ]
           r == listCategoriesTool(params)
       IN  /\ tool' = Some([ name |-> "camara_list_categories", params |-> params ])
           /\ locals' = r.locals
           /\ result' = r.result
  /\ UNCHANGED << catalogVars, searchVars, repeatVars, detailVars, scoreVars,
                  request, httpVars >>

\* Slugs for the tools on one stable API: the stable slugs, an initial slug,
\* another spelling of a stable slug, an unknown slug.
ToolSlugs ==
  StableSlugs \cup { "location-retrieval", "SIM-SWAP", "not-a-real-slug" }

Languages == { "python", "typescript", "curl", "java" }

AuthFlows ==
  { undefined, Some("client_credentials"), Some("authorization_code") }

GenerateClientCodeTool ==
  /\ tool = undefined
  /\ \E slug \in ToolSlugs, language \in Languages, auth_flow \in AuthFlows,
        format \in ResponseFormats :
       LET params == [ slug |-> slug, language |-> language,
                       auth_flow |-> auth_flow, response_format |-> format ]
           r == generateClientCodeTool(params)
       IN  /\ tool' = Some([ name |-> "camara_generate_client_code",
                             params |-> params ])
           /\ locals' = r.locals
           /\ result' = r.result
  /\ UNCHANGED << catalogVars, searchVars, repeatVars, detailVars, scoreVars,
                  request, httpVars >>

\* Versions to migrate from: absent, empty, of the same and of another major
\* version as the latest versions of the catalog, and one without a dot.
FromVersions ==
  { undefined, Some(""), Some("0.9.0"), Some("1.0.0"), Some("2.0.0"),
    Some("2") }

MigrationGuideTool ==
  /\ tool = undefined
  /\ \E slug \in ToolSlugs, from_version \in FromVersions,
        format \in ResponseFormats :
       LET params == [ slug |-> slug, from_version |-> from_version,
                       response_format |-> format ]
           r == migrationGuideTool(params)
       IN  /\ tool' = Some([ name |-> "camara_migration_guide",
                             params |-> params ])
           /\ locals' = r.locals
           /\ result' = r.result
  /\ UNCHANGED << catalogVars, searchVars, repeatVars, detailVars, scoreVars,
                  request, httpVars >>

Environments == { "sandbox", "production" }

IntegrationChecklistTool ==
  /\ tool = undefined
  /\ \E slug \in ToolSlugs, environment \in Environments,
        format \in ResponseFormats :
       LET params == [ slug |-> slug, environment |-> environment,
                       response_format |-> format ]
           r == integrationChecklistTool(params)
       IN  /\ tool' = Some([ name |-> "camara_integration_checklist",
                             params |-> params ])
           /\ locals' = r.locals
           /\ result' = r.result
  /\ UNCHANGED << catalogVars, searchVars, repeatVars, detailVars, scoreVars,
                  request, httpVars >>

\* Parsed arguments of camara_search_apis: queries with and without matches,
\* filters, pages inside and past the matches.
ToolQueries == { undefined, Some("fraud"), Some("swap"), Some("zzz") }

ToolCategories == { undefined, Some("auth-fraud") }

ToolStatuses == { undefined, Some("stable"), Some("initial") }

ToolLimits == { 1, 5, DEFAULT_LIMIT }

ToolOffsets == { 0, 5 }

\* The handler of camara_search_apis on parsed arguments.
SearchApisTool ==
  /\ tool = undefined
  /\ args = undefined
  /\ \E query \in ToolQueries, category \in ToolCategories,
        status \in ToolStatuses, limit \in ToolLimits, offset \in ToolOffsets,
        format \in ResponseFormats :
       LET params == [ query |-> query, category |-> category,
                       status |-> status, limit |-> limit, offset |-> offset,
                       response_format |-> format ]
       IN  /\ tool' = Some([ name |-> "camara_search_apis", params |-> params ])
           /\ args' = Some([ query |-> query, category |-> category,
                             status |-> status, limit |-> limit,
                             offset |-> offset ])
           /\ combined' = combinedArray(query, category, status)
           /\ response' = searchApisReturn(combined', limit, offset)
           /\ STABLE_APIS' = stableAfterSearch(query, category, status)
           /\ INITIAL_APIS' = initialAfterSearch(query, category, status)
           /\ UNCHANGED API_CATEGORIES
           /\ start' = offset
           /\ pages' = response'.items
           /\ calls' = 1
           /\ locals' = [ results |-> response' ]
           /\ result' = searchApisTool(params, response')
  /\ UNCHANGED << repeatVars, detailVars, scoreVars, request, httpVars >>

\* Slugs for the guide: absent, empty, stable, initial, unknown.
GuideSlugs ==
  { undefined, Some("") } \cup { Some(s) : s \in ToolSlugs }

AuthGuideTool ==
  /\ tool = undefined
  /\ \E api_slug \in GuideSlugs, format \in ResponseFormats :
       LET params == [ api_slug |-> api_slug, response_format |-> format ]
           r == authGuideTool(params)
       IN  /\ tool' = Some([ name |-> "camara_auth_guide", params |-> params ])
           /\ locals' = r.locals
           /\ result' = r.result
  /\ UNCHANGED << catalogVars, searchVars, repeatVars, detailVars, scoreVars,
                  request, httpVars >>

NextTools ==
  \/ SearchApisTool
  \/ GetApiDetailTool
  \/ CompareApisTool
  \/ UseCasesTool
  \/ ListCategoriesTool
  \/ GenerateClientCodeTool
  \/ MigrationGuideTool
  \/ IntegrationChecklistTool
  \/ AuthGuideTool

SpecTools == Init /\ [][NextTools]_vars

\* ---------------------------------------------------------------------------
\* Requests to the worker
\* ---------------------------------------------------------------------------
\* A fetch call that has returned its Response.
returned(req, outcome, server, transport, resp) ==
  [ request |-> req, outcome |-> outcome, pc |-> "returned",
    server |-> server, transport |-> transport, received |-> null,
    response |-> resp ]

\* fetch from its begin to its first await: the branches before /mcp, or the
\* new server and transport and the call of server.connect(transport).
fetchBegin(id, req, outcome) ==
  /\ inflight[id] = null
  /\ IF fetchBefore(req) # undefined
     THEN /\ inflight' = [ inflight EXCEPT ![id] =
                             returned(req, outcome, null, null,
                                      fetchBefore(req)[1]) ]
          /\ created' = created
     ELSE IF outcome.throws = "createMcpServer"
     THEN /\ inflight' = [ inflight EXCEPT ![id] =
                             returned(req, outcome, null, null,
                                      internalError(outcome.thrown)) ]
          /\ created' = created
     ELSE /\ inflight' = [ inflight EXCEPT ![id] =
                             IF outcome.throws = "connect"
                             THEN returned(req, outcome,
                                           createMcpServer(created + 1),
                                           newTransport(created + 2),
                                           internalError(outcome.thrown))
                             ELSE [ request |-> req, outcome |-> outcome,
                                    pc |-> "connected",
                                    server |-> createMcpServer(created + 1),
                                    transport |-> newTransport(created + 2),
                                    received |-> null, response |-> null ] ]
          /\ created' = created + 2
  /\ UNCHANGED << catalogVars, searchVars, repeatVars, detailVars, scoreVars,
                  toolVars, alone >>

\* fetch after server.connect: transport.handleRequest(request) runs the
\* handler of the tool, or throws.
fetchHandle(id) ==
  /\ inflight[id] # null
  /\ inflight[id].pc = "connected"
  /\ LET call == inflight[id]
     IN  IF call.outcome.throws = "handleRequest"
         THEN /\ inflight' = [ inflight EXCEPT ![id] =
                                 returned(call.request, call.outcome, call.server,
                                          call.transport,
                                          internalError(call.outcome.thrown)) ]
              /\ UNCHANGED catalogVars
         ELSE /\ inflight' = [ inflight EXCEPT ![id] =
                                 [ call EXCEPT
                                     !.pc = "handled",
                                     !.received = handleRequest(call.server,
                                                                call.request,
                                                                call.outcome) ] ]
              /\ STABLE_APIS' = stableAfterRequest(call.request, call.outcome)
              /\ INITIAL_APIS' = initialAfterRequest(call.request, call.outcome)
              /\ UNCHANGED API_CATEGORIES
  /\ UNCHANGED << searchVars, repeatVars, detailVars, scoreVars, toolVars,
                  created, alone >>

\* fetch after transport.handleRequest: return addCorsHeaders(response).
fetchReturn(id) ==
  /\ inflight[id] # null
  /\ inflight[id].pc = "handled"
  /\ inflight' = [ inflight EXCEPT ![id] =
                     returned(@.request, @.outcome, @.server, @.transport,
                              addCorsHeaders(@.received)) ]
  /\ UNCHANGED << catalogVars, searchVars, repeatVars, detailVars, scoreVars,
                  toolVars, created, alone >>

\* One request to the worker, of any method and URL.
HttpBegin ==
  /\ \A id \in 1..MaxRequests : inflight[id] = null
  /\ \E req \in HttpRequests, outcome \in TransportOutcomes :
       fetchBegin(1, req, outcome)

HttpHandle == fetchHandle(1)

HttpReturn == fetchReturn(1)

NextHttp == HttpBegin \/ HttpHandle \/ HttpReturn

SpecHttp == Init /\ [][NextHttp]_vars

\* Requests served concurrently: the steps of the fetch calls interleave at
\* the awaits.
ConcurrentBegin ==
  \E id \in 1..MaxRequests, input \in ConcurrentInputs :
    fetchBegin(id, input.request, input.outcome)

ConcurrentHandle == \E id \in 1..MaxRequests : fetchHandle(id)

ConcurrentReturn == \E id \in 1..MaxRequests : fetchReturn(id)

NextConcurrent == ConcurrentBegin \/ ConcurrentHandle \/ ConcurrentReturn

SpecConcurrent == Init /\ [][NextConcurrent]_vars

Next == SearchCall \/ NextPageCall

Spec == Init /\ [][Next]_vars

OptionsOf(values) == { undefined } \cup { Some(v) : v \in values }

\* Arguments of camara_search_apis requests, valid and malformed.
RawSearchArgs ==
  [ query : OptionsOf({ jsonString("fraud"), jsonString(Query200),
                        jsonString(Query201), jsonNumber(5) }),
    category : OptionsOf({ jsonString("auth-fraud"), jsonString("fraud") }),
    status : OptionsOf({ jsonString("initial"), jsonString("sandbox") }),
    limit : OptionsOf({ jsonNumber(0), jsonNumber(1), jsonNumber(100),
                        jsonNumber(101), jsonHalf(1), jsonString("20") }),
    offset : OptionsOf({ jsonNumber(-1), jsonNumber(5), jsonHalf(0) }),
    response_format : OptionsOf({ jsonString("json"), jsonString("xml") }),
    others : { {}, { "page" } } ]

\* A camara_search_apis request: the arguments are parsed with the schema and
\* the handler runs on the parsed arguments only.
SearchApisRequest ==
  /\ request = undefined
  /\ args = undefined
  /\ \E raw \in RawSearchArgs :
       LET parsed == SearchApisSchema(raw)
       IN  /\ request' = Some([ name |-> "camara_search_apis", arguments |-> raw ])
           /\ IF parsed.success
              THEN LET p == parsed.data
                   IN  /\ tool' = Some([ name |-> "camara_search_apis", params |-> p ])
                       /\ args' = Some([ query |-> p.query, category |-> p.category,
                                         status |-> p.status, limit |-> p.limit,
                                         offset |-> p.offset ])
                       /\ combined' = combinedArray(p.query, p.category, p.status)
                       /\ response' = searchApisReturn(combined', p.limit, p.offset)
                       /\ STABLE_APIS' = stableAfterSearch(p.query, p.category, p.status)
                       /\ INITIAL_APIS' = initialAfterSearch(p.query, p.category, p.status)
                       /\ UNCHANGED API_CATEGORIES
                       /\ start' = p.offset
                       /\ pages' = response'.items
                       /\ calls' = 1
                       /\ locals' = [ results |-> response' ]
                       /\ result' = searchApisTool(p, response')
              ELSE /\ result' = invalidParams
                   /\ UNCHANGED << catalogVars, searchVars, tool, locals >>
  /\ UNCHANGED << repeatVars, detailVars, scoreVars, httpVars >>

\* Arguments of camara_compare_apis requests, valid and malformed.
RawCompareArgs ==
  [ slugs : OptionsOf({ jsonArray(<< jsonString("sim-swap") >>),
                        jsonArray(<< jsonString("sim-swap"), jsonString("device-swap") >>),
                        jsonArray([ n \in 1..5 |-> jsonString("sim-swap") ]),
                        jsonArray([ n \in 1..6 |-> jsonString("sim-swap") ]),
                        jsonArray(<< jsonString("sim-swap"), jsonNumber(7) >>),
                        jsonArray(<< >>),
                        jsonString("sim-swap,device-swap") }),
    response_format : OptionsOf({ jsonString("json"), jsonString("xml") }),
    others : { {}, { "page" } } ]

\* A camara_compare_apis request.
CompareApisRequest ==
  /\ request = undefined
  /\ tool = undefined
  /\ \E raw \in RawCompareArgs :
       LET parsed == CompareApisSchema(raw)
       IN  /\ request' = Some([ name |-> "camara_compare_apis", arguments |-> raw ])
           /\ IF parsed.success
              THEN LET r == compareApisTool(parsed.data)
                   IN  /\ tool' = Some([ name |-> "camara_compare_apis",
                                         params |-> parsed.data ])
                       /\ locals' = r.locals
                       /\ result' = r.result
              ELSE /\ result' = invalidParams
                   /\ UNCHANGED << tool, locals >>
  /\ UNCHANGED << catalogVars, searchVars, repeatVars, detailVars, scoreVars,
                  httpVars >>

NextSchema == SearchApisRequest \/ CompareApisRequest

SpecSchema == Init /\ [][NextSchema]_vars

NextDirect == DirectSearchCall

SpecDirect == Init /\ [][NextDirect]_vars

NextScore == ScoreCall

SpecScore == Init /\ [][NextScore]_vars

NextRepeat == SearchCall \/ OtherCall \/ RepeatCall

SpecRepeat == Init /\ [][NextRepeat]_vars

NextDetail == SearchCall \/ GetDetailCall

SpecDetail == Init /\ [][NextDetail]_vars

\* ---------------------------------------------------------------------------
\* Notions the properties are stated with
\* ---------------------------------------------------------------------------
Catalog == Range(STABLE_APIS) \cup Range(INITIAL_APIS)

isStable(api) == \E i \in DOMAIN STABLE_APIS : STABLE_APIS[i] = api

maturity(api) == IF isStable(api) THEN "stable" ELSE "initial"

\* The search item of a catalog record.
itemOf(api) ==
  IF isStable(api) THEN toSearchResult(api) ELSE initialToSearchResult(api)

passesCategory(api, category) == category = undefined \/ api.category = category[1]

passesStatus(api, status) == status = undefined \/ maturity(api) = status[1]

hasQuery(query) == query # undefined /\ query[1] # ""

passesQuery(api, query) == hasQuery(query) => score(api, query[1]) > 0

matching(query, category, status) ==
  { api \in Catalog : /\ passesCategory(api, category)
                      /\ passesStatus(api, status)
                      /\ passesQuery(api, query) }

called == args # undefined

\* ---------------------------------------------------------------------------
\* Properties
\* ---------------------------------------------------------------------------
\* C1: with a non-empty query the filtered set of a searchApis call is exactly
\* the set of records that pass the category and status filters and have a
\* score above zero; every ranked and every returned item has a positive score.
C1_QueryFilter ==
  (called /\ hasQuery(args[1].query)) =>
    LET a == args[1]
    IN  /\ { r.result : r \in Range(combined) }
             = { itemOf(api) : api \in matching(a.query, a.category, a.status) }
        /\ \A r \in Range(combined) : r.score > 0
        /\ \A i \in DOMAIN response.items :
             \E api \in Catalog : /\ itemOf(api) = response.items[i]
                                  /\ score(api, a.query[1]) > 0

\* A call with a query that returns items and drops a record which passes the
\* category and status filters.
C1_Witness ==
  /\ called
  /\ hasQuery(args[1].query)
  /\ response.count > 0
  /\ \E api \in Catalog : /\ passesCategory(api, args[1].category)
                          /\ passesStatus(api, args[1].status)
                          /\ score(api, args[1].query[1]) = 0

\* C2: total is the number of records passing the query, category and status
\* filters, whatever limit and offset are, and count, the length of items, is
\* min(limit, total - offset) when offset < total and 0 otherwise.
C2_TotalAndCount ==
  called =>
    LET a == args[1]
        total == Cardinality(matching(a.query, a.category, a.status))
    IN  /\ response.total = total
        /\ response.count = Len(response.items)
        /\ response.count = IF a.offset < total
                            THEN Min(a.limit, total - a.offset) ELSE 0

\* A last page that is neither empty nor full, behind a positive offset.
C2_Witness ==
  /\ called
  /\ args[1].offset > 0
  /\ response.count > 0
  /\ response.count < args[1].limit
  /\ response.total > response.count

\* C3: has_more holds exactly if offset + count < total; with has_more the
\* response has next_offset = offset + count, without it no next_offset field.
C3_HasMore ==
  called =>
    /\ response.has_more <=> (args[1].offset + response.count < response.total)
    /\ response.has_more =>
         /\ "next_offset" \in DOMAIN response
         /\ response.next_offset = args[1].offset + response.count
    /\ ~response.has_more => "next_offset" \notin DOMAIN response

\* A page with more behind it, reached by following next_offset, and then the
\* last page.
C3_Witness ==
  /\ called
  /\ calls > 1
  /\ ~response.has_more
  /\ response.count > 0

\* C4 as stated: the ranked sequence is ordered by score descending and, for
\* equal scores, by name ascending under code-unit comparison.  The sort
\* compares names with localeCompare, so this fails: "Scam Signal" is ranked
\* before "SIM Swap".
C4_OrdinalOrder ==
  called =>
    \A i \in 1..(Len(combined) - 1) :
      \/ combined[i].score > combined[i + 1].score
      \/ /\ combined[i].score = combined[i + 1].score
         /\ ordinalCompare(combined[i].result.name,
                           combined[i + 1].result.name) <= 0

\* The collation key of a name: its letters without case, white space and
\* punctuation before digits before letters.
collationKey(name) == [ i \in 1..Len(name) |-> primaryWeight[charAt(name, i)] ]

\* k1 is lexicographically below k2.
keyBelow(k1, k2) ==
  \E n \in 0..Min(Len(k1), Len(k2)) :
     /\ \A i \in 1..n : k1[i] = k2[i]
     /\ \/ n = Len(k1) /\ n < Len(k2)
        \/ n < Len(k1) /\ n < Len(k2) /\ k1[n + 1] < k2[n + 1]

\* a is not behind b in the locale order: the keys decide, and between names
\* with one key the first differing letter is lower case in a.
collatesFirst(a, b) ==
  \/ a = b
  \/ keyBelow(collationKey(a), collationKey(b))
  \/ /\ collationKey(a) = collationKey(b)
     /\ \E n \in 1..Len(a) : /\ SubSeq(a, 1, n - 1) = SubSeq(b, 1, n - 1)
                             /\ charAt(a, n) # charAt(b, n)
                             /\ isLowerCase(charAt(a, n))

\* C4 (amended): the ranked sequence is ordered by score descending and, for
\* equal scores, by name ascending in the locale order of localeCompare
\* (letters without case, space and punctuation first); with no query every
\* score is 0 and the filtered stable and initial records form one sequence
\* in that name order.
C4_LocaleOrder ==
  called =>
    LET a == args[1]
    IN  /\ \A i \in 1..(Len(combined) - 1) :
             \/ combined[i].score > combined[i + 1].score
             \/ /\ combined[i].score = combined[i + 1].score
                /\ collatesFirst(combined[i].result.name,
                                 combined[i + 1].result.name)
        /\ ~hasQuery(a.query) =>
             /\ \A i \in DOMAIN combined : combined[i].score = 0
             /\ { combined[i].result : i \in DOMAIN combined }
                  = { itemOf(api) : api \in matching(a.query, a.category, a.status) }
             /\ Len(combined) = Cardinality(matching(a.query, a.category, a.status))

\* A call without a query that ranks a stable and an initial record next to
\* each other where the locale order and the code-unit order disagree.
C4_Witness ==
  /\ called
  /\ ~hasQuery(args[1].query)
  /\ \E i \in 1..(Len(response.items) - 1) :
       /\ response.items[i].status # response.items[i + 1].status
       /\ ordinalCompare(response.items[i].name, response.items[i + 1].name) > 0

\* q occurs in text as a substring, letter case disregarded.
containsCI(text, q) == includes(toLowerCase(text), toLowerCase(q))

anyContainsCI(list, q) == \E i \in DOMAIN list : containsCI(list[i], q)

weightIf(cond, weight) == IF cond THEN weight ELSE 0

\* The score of the weight table: every matching field counts once.
weightedSum(api, q) ==
  weightIf(containsCI(api.name, q), 10)
    + weightIf(containsCI(api.slug, q), 8)
    + weightIf(containsCI(api.category, q), 5)
    + weightIf(containsCI(api.description, q), 3)
    + weightIf(isStable(api) /\ anyContainsCI(api.industries, q), 4)
    + weightIf(isStable(api) /\ anyContainsCI(api.useCases, q), 2)

\* C5: searchScore is the sum of the weights of the fields that contain the
\* query without regard to case (name 10, slug 8, category 5, description 3,
\* industries 4 once, use cases 2 once); an initial record gets nothing for
\* the two lists; the score is in 0..32 for stable, 0..26 for initial records.
C5_ScoreFormula ==
  scoreArgs # undefined =>
    LET api == scoreArgs[1].api
        q == scoreArgs[1].query
    IN  /\ scoreValue = weightedSum(api, q)
        /\ scoreValue \in 0..(IF isStable(api) THEN 32 ELSE 26)
        /\ ~isStable(api) =>
             scoreValue = weightIf(containsCI(api.name, q), 10)
                            + weightIf(containsCI(api.slug, q), 8)
                            + weightIf(containsCI(api.category, q), 5)
                            + weightIf(containsCI(api.description, q), 3)

\* searchScore was applied to a stable record with two matching industries and
\* two matching use cases.
C5_Witness ==
  /\ scoreArgs # undefined
  /\ LET api == scoreArgs[1].api
         q == scoreArgs[1].query
     IN  /\ isStable(api)
         /\ q # ""
         /\ \E i, j \in DOMAIN api.industries :
               i # j /\ containsCI(api.industries[i], q)
                     /\ containsCI(api.industries[j], q)
         /\ \E i, j \in DOMAIN api.useCases :
               i # j /\ containsCI(api.useCases[i], q)
                     /\ containsCI(api.useCases[j], q)
         /\ scoreValue < 32

\* C6: a status filter leaves only items whose status is the filter: "stable"
\* excludes every initial record, "initial" every stable record; without a
\* status filter the stable and the initial records are all candidates.
C6_StatusFilter ==
  called =>
    LET a == args[1]
        ranked == { combined[i].result : i \in DOMAIN combined }
    IN  /\ truthy(a.status) =>
             /\ \A r \in ranked : r.status = a.status[1]
             /\ \A i \in DOMAIN response.items :
                  response.items[i].status = a.status[1]
        /\ a.status = Some("stable") =>
             \A api \in Range(INITIAL_APIS) : \A r \in ranked : r.slug # api.slug
        /\ a.status = Some("initial") =>
             \A api \in Range(STABLE_APIS) : \A r \in ranked : r.slug # api.slug
        /\ a.status = undefined =>
             ranked = { itemOf(api) :
                          api \in { x \in Catalog : /\ passesCategory(x, a.category)
                                                    /\ passesQuery(x, a.query) } }

\* A call with status "initial" that returns items although a stable record
\* passes the other filters.
C6_Witness ==
  /\ called
  /\ args[1].status = Some("initial")
  /\ response.count > 0
  /\ \E api \in Range(STABLE_APIS) : /\ passesCategory(api, args[1].category)
                                     /\ passesQuery(api, args[1].query)

\* C7: under a category filter X every ranked and returned item has category
\* X, and what is matched with category X and status "stable" is among what
\* is matched with category X alone.
C7_CategorySubset ==
  (called /\ truthy(args[1].category)) =>
    LET a == args[1]
    IN  /\ \A i \in DOMAIN combined : combined[i].result.category = a.category[1]
        /\ \A i \in DOMAIN response.items :
             response.items[i].category = a.category[1]
        /\ a.status = Some("stable") =>
             Range(combined) \subseteq Range(combinedArray(a.query, a.category, undefined))

\* A call with a category and status "stable" that matches records, while the
\* category alone also matches an initial record.
C7_Witness ==
  /\ called
  /\ truthy(args[1].category)
  /\ args[1].status = Some("stable")
  /\ response.count > 0
  /\ Len(combinedArray(args[1].query, args[1].category, undefined)) > Len(combined)

\* The items of the ranked sequence of the last call.
rankedItems == [ i \in 1..Len(combined) |-> combined[i].result ]

ceilDiv(a, b) == (a + b - 1) \div b

\* C8: following next_offset from offset 0 while has_more holds takes
\* ceil(total / limit) calls (one when total = 0), and the pages put together
\* are the ranked sequence, nothing repeated and nothing skipped; with
\* status "stable" and limit 5 these are two pages holding the 10 stable
\* records.
C8_Paging ==
  (called /\ start = 0) =>
    LET a == args[1]
        total == response.total
        pagesNeeded == IF total = 0 THEN 1 ELSE ceilDiv(total, a.limit)
    IN  /\ pages = SubSeq(rankedItems, 1, a.offset + response.count)
        /\ calls <= pagesNeeded
        /\ ~response.has_more =>
             /\ calls = pagesNeeded
             /\ pages = rankedItems
             /\ \A i, j \in DOMAIN pages : i # j => pages[i] # pages[j]
             /\ Range(pages)
                  = { itemOf(api) : api \in matching(a.query, a.category, a.status) }
        /\ ( /\ a.query = undefined /\ a.category = undefined
             /\ a.status = Some("stable") /\ a.limit = 5
             /\ ~response.has_more ) =>
             /\ calls = 2
             /\ a.offset = 5
             /\ Len(pages) = 10
             /\ { pages[i].slug : i \in DOMAIN pages }
                  = { STABLE_APIS[i].slug : i \in DOMAIN STABLE_APIS }

\* The walk over the stable records with limit 5 has reached its second and
\* last page.
C8_Witness ==
  /\ called
  /\ start = 0
  /\ args[1].query = undefined
  /\ args[1].category = undefined
  /\ args[1].status = Some("stable")
  /\ args[1].limit = 5
  /\ calls = 2
  /\ ~response.has_more

C10_DetailOfStableItem ==
  (detailItem # null /\ args[1].status = Some("stable")) =>
    /\ detail # null
    /\ detail.slug = detailItem.slug
    /\ detail.name = detailItem.name

\* getApiDetail was called for an item of a search with a query, a category
\* and status "stable".
C10_Witness ==
  /\ detailItem # null
  /\ args[1].status = Some("stable")
  /\ hasQuery(args[1].query)
  /\ truthy(args[1].category)
  /\ detail # null

toolCalled(name) == tool # undefined /\ tool[1].name = name

isErrorResult(r) == "isError" \in DOMAIN r /\ r.isError

resultText(r) == r.content[1].text

\* C11: getApiDetail returns a record exactly if a stable record has the very
\* slug of the argument; the slug of an initial record, a proper substring and
\* another spelling of a stable slug give null; the detail of
\* location-verification has an auth_flow containing "Authorization Code".
C11_ExactLookup ==
  toolCalled("camara_get_api_detail") =>
    LET slug == tool[1].params.slug
        d == locals.detail
    IN  /\ d # null <=> \E i \in DOMAIN STABLE_APIS : STABLE_APIS[i].slug = slug
        /\ d # null => d.slug = slug
        /\ (\E i \in DOMAIN INITIAL_APIS : INITIAL_APIS[i].slug = slug) => d = null
        /\ (\E i \in DOMAIN STABLE_APIS :
              /\ STABLE_APIS[i].slug # slug
              /\ \/ includes(STABLE_APIS[i].slug, slug)
                 \/ toLowerCase(slug) = STABLE_APIS[i].slug) => d = null
        /\ slug = "location-verification" =>
             /\ d # null
             /\ includes(d.auth_flow, "Authorization Code")

\* The lookup was made with a stable slug spelled with an upper-case letter
\* and returned null.
C11_Witness ==
  /\ toolCalled("camara_get_api_detail")
  /\ locals.detail = null
  /\ tool[1].params.slug # toLowerCase(tool[1].params.slug)
  /\ \E i \in DOMAIN STABLE_APIS :
        STABLE_APIS[i].slug = toLowerCase(tool[1].params.slug)

\* The slugs of an array that are slugs of stable records, in their order.
resolved(slugs) ==
  SelectSeq(slugs, LAMBDA s : \E i \in DOMAIN STABLE_APIS : STABLE_APIS[i].slug = s)

\* Every stable slug occurs in the text.
listsStableSlugs(text) ==
  \A i \in DOMAIN STABLE_APIS : includes(text, STABLE_APIS[i].slug)

\* C12: camara_compare_apis drops the slugs that are not slugs of stable
\* records, returns the "Need at least 2 valid stable API slugs" error with
\* all stable slugs exactly if fewer than 2 slugs resolve, and otherwise one
\* detail per resolved slug in the order of the request.
C12_CompareResolved ==
  toolCalled("camara_compare_apis") =>
    LET slugs == tool[1].params.slugs
        res == resolved(slugs)
        details == locals.details
    IN  /\ Len(details) = Len(res)
        /\ \A i \in 1..Len(res) : details[i] = getApiDetail(res[i])
        /\ isErrorResult(result) <=> Len(res) < 2
        /\ isErrorResult(result) =>
             /\ includes(resultText(result), "Need at least 2 valid stable API slugs")
             /\ listsStableSlugs(resultText(result))
        /\ ~isErrorResult(result) =>
             IF tool[1].params.response_format = "json"
             THEN result.structuredContent.apis = details
             ELSE includes(resultText(result),
                           "| " \o join(<< "Feature" >>
                                          \o [ i \in 1..Len(res) |-> details[i].name ],
                                        " | ") \o " |")
        /\ slugs = << "sim-swap", "device-swap" >> =>
             /\ ~isErrorResult(result)
             /\ [ i \in 1..Len(details) |-> details[i].slug ]
                  = << "sim-swap", "device-swap" >>
        /\ slugs = << "sim-swap", "not-a-real-slug" >> => isErrorResult(result)

\* A comparison of three slugs, the middle one unknown, returned the details
\* of the other two in their order.
C12_Witness ==
  /\ toolCalled("camara_compare_apis")
  /\ tool[1].params.slugs = << "device-swap", "not-a-real-slug", "sim-swap" >>
  /\ ~isErrorResult(result)
  /\ [ i \in 1..Len(locals.details) |-> locals.details[i].slug ]
       = << "device-swap", "sim-swap" >>

\* C13: camara_compare_apis with the slugs location-verification and
\* location-retrieval returns a comparison that contains both APIs.
C13_LocationPair ==
  ( /\ toolCalled("camara_compare_apis")
    /\ tool[1].params.slugs = << "location-verification", "location-retrieval" >> )
  => /\ ~isErrorResult(result)
     /\ { locals.details[i].slug : i \in DOMAIN locals.details }
          = { "location-verification", "location-retrieval" }

\* q occurs, in any case, in the name, slug, description, industries or use
\* cases of a catalog record.
inTextFields(api, q) ==
  \/ containsCI(api.name, q)
  \/ containsCI(api.slug, q)
  \/ containsCI(api.description, q)
  \/ "industries" \in DOMAIN api /\ anyContainsCI(api.industries, q)
  \/ "useCases" \in DOMAIN api /\ anyContainsCI(api.useCases, q)

\* C14: searchApis with query "fraud" and category "auth-fraud" returns a
\* non-empty set whose every member has category auth-fraud and has "fraud" in
\* its name, slug, description, industries or use cases.
C14_FraudInTextFields ==
  ( /\ called
    /\ args[1].query = Some("fraud")
    /\ args[1].category = Some("auth-fraud") )
  => /\ combined # << >>
     /\ \A r \in Range(combined) :
          /\ r.result.category = "auth-fraud"
          /\ \E api \in Catalog : /\ itemOf(api) = r.result
                                  /\ inTextFields(api, "fraud")

\* The industry labels of the stable records.
industryLabels == UNION { Range(STABLE_APIS[i].industries) : i \in DOMAIN STABLE_APIS }

\* A label passes the filter of camara_use_cases.
labelPasses(label, industry) ==
  truthy(industry) => includes(toLowerCase(label), toLowerCase(industry[1]))

\* The entries of the stable records that carry the label, in catalog order.
carriers(label) ==
  LET with == SelectSeq(STABLE_APIS, LAMBDA a : label \in Range(a.industries))
  IN  [ i \in 1..Len(with) |->
          [ api |-> with[i].name, slug |-> with[i].slug,
            use_cases |-> with[i].useCases ] ]

\* C15: camara_use_cases groups by the label as written in the record: the
\* keys are exactly the labels whose lower-cased form contains the lower-cased
\* filter (all labels without a filter or with an empty one), each group is
\* the stable APIs carrying the label in catalog order, and the result is the
\* "No APIs found for industry" error with all labels exactly if a non-empty
\* filter matches no label.
C15_IndustryGroups ==
  toolCalled("camara_use_cases") =>
    LET industry == tool[1].params.industry
        map == locals.industryMap
    IN  /\ { map[i].key : i \in DOMAIN map }
             = { label \in industryLabels : labelPasses(label, industry) }
        /\ \A i, j \in DOMAIN map : map[i].key = map[j].key => i = j
        /\ \A i \in DOMAIN map : map[i].value = carriers(map[i].key)
        /\ isErrorResult(result)
             <=> /\ truthy(industry)
                 /\ \A label \in industryLabels : ~labelPasses(label, industry)
        /\ isErrorResult(result) =>
             /\ includes(resultText(result), "No APIs found for industry")
             /\ \A label \in industryLabels : includes(resultText(result), label)
        /\ (~isErrorResult(result) /\ tool[1].params.response_format = "json")
             => result.structuredContent = map

\* The filter "BANK" gave the group of the label "Banking" with several APIs.
C15_Witness ==
  /\ toolCalled("camara_use_cases")
  /\ tool[1].params.industry = Some("BANK")
  /\ ~isErrorResult(result)
  /\ \E i \in DOMAIN locals.industryMap :
       /\ locals.industryMap[i].key = "Banking"
       /\ Len(locals.industryMap[i].value) > 1

\* A limit and an offset brought into the ranges of the tool.
clampLimit(limit) == Min(Max(limit, 1), MAX_LIMIT)

clampOffset(offset) == Max(offset, 0)

\* C16: searchApis called directly with a limit below 1 or above 100 or an
\* offset below 0 returns what it returns for the clamped limit and offset,
\* and count, has_more and next_offset agree with total.
C16_Clamped ==
  called =>
    LET a == args[1]
    IN  /\ response = searchApisReturn(combined, clampLimit(a.limit),
                                       clampOffset(a.offset))
        /\ response.count = Len(response.items)
        /\ response.has_more <=> response.offset + response.count < response.total
        /\ response.has_more =>
             /\ response.count > 0
             /\ response.next_offset = response.offset + response.count
             /\ response.next_offset > response.offset

requested(name) == request # undefined /\ request[1].name = name

\* A value is present and is not one the parameter may have.
presentAndNot(opt, legal) == opt # undefined /\ opt[1] \notin legal

\* The arguments of a search request are malformed in one of the ways of C17.
malformedSearch(raw) ==
  \/ presentAndNot(raw.limit, { jsonNumber(n) : n \in 1..100 })
  \/ raw.offset # undefined
       /\ (raw.offset[1].t # "number" \/ raw.offset[1].half \/ raw.offset[1].n < 0)
  \/ raw.query # undefined
       /\ (raw.query[1].t # "string" \/ Len(raw.query[1].s) > 200)
  \/ presentAndNot(raw.category, { jsonString(c) : c \in Range(API_CATEGORY_IDS) })
  \/ presentAndNot(raw.status, { jsonString("stable"), jsonString("initial") })
  \/ presentAndNot(raw.response_format, { jsonString("markdown"), jsonString("json") })
  \/ raw.others # {}

\* The arguments of a compare request are malformed in one of the ways of C17.
malformedCompare(raw) ==
  \/ raw.slugs = undefined
  \/ raw.slugs # undefined
       /\ (raw.slugs[1].t # "array"
             \/ Len(raw.slugs[1].a) < 2
             \/ Len(raw.slugs[1].a) > 5
             \/ \E n \in DOMAIN raw.slugs[1].a : raw.slugs[1].a[n].t # "string")
  \/ presentAndNot(raw.response_format, { jsonString("markdown"), jsonString("json") })
  \/ raw.others # {}

valueOr(opt, default) == IF opt = undefined THEN default ELSE opt[1]

\* C17: a request with malformed arguments (limit not an integer in 1..100,
\* offset negative or not an integer, query over 200 characters, unknown
\* category, status or response_format, slugs array shorter than 2 or longer
\* than 5, an unknown parameter) is answered by the validation and calls
\* neither the handler nor searchApis; any other request reaches the handler
\* with limit 20, offset 0 and response_format markdown where they are omitted.
C17_SchemaBoundary ==
  /\ requested("camara_search_apis") =>
       LET raw == request[1].arguments
       IN  IF malformedSearch(raw)
           THEN result = invalidParams /\ tool = undefined /\ args = undefined
           ELSE /\ toolCalled("camara_search_apis")
                /\ called
                /\ args[1].limit = valueOr(raw.limit, jsonNumber(20)).n
                /\ args[1].offset = valueOr(raw.offset, jsonNumber(0)).n
                /\ tool[1].params.response_format
                     = valueOr(raw.response_format, jsonString("markdown")).s
                /\ args[1].limit \in 1..100
                /\ args[1].offset >= 0
  /\ requested("camara_compare_apis") =>
       LET raw == request[1].arguments
       IN  IF malformedCompare(raw)
           THEN result = invalidParams /\ tool = undefined
           ELSE /\ toolCalled("camara_compare_apis")
                /\ Len(tool[1].params.slugs) \in 2..5
                /\ tool[1].params.response_format
                     = valueOr(raw.response_format, jsonString("markdown")).s

\* A search request whose only fault is the limit 101 was rejected.
C17_Witness ==
  /\ requested("camara_search_apis")
  /\ request[1].arguments.limit = Some(jsonNumber(101))
  /\ ~malformedSearch([ request[1].arguments EXCEPT !.limit = undefined ])
  /\ result = invalidParams
  /\ args = undefined

\* The places of the entries of a slug in the list of a category.
placesOf(cat, slug) == { n \in DOMAIN cat.apis : cat.apis[n].slug = slug }

sumOfCounts(cats) ==
  LET upTo[c \in 0..Len(cats)] ==
        IF c = 0 THEN 0 ELSE upTo[c - 1] + cats[c].api_count
  IN  upTo[Len(cats)]

\* C20: listCategories returns the 8 category identifiers, each once; the
\* api_count of an entry is the length of its apis; every stable and initial
\* record is listed once, in the entry of its own category and in no other,
\* stable records before initial ones; the api_counts add up to the size of
\* the two catalogs.
C20_Categories ==
  toolCalled("camara_list_categories") =>
    LET cats == locals.cats
    IN  /\ Len(cats) = 8
        /\ { cats[c].category_id : c \in DOMAIN cats } = Range(API_CATEGORY_IDS)
        /\ \A c, e \in DOMAIN cats : cats[c].category_id = cats[e].category_id => c = e
        /\ \A c \in DOMAIN cats : cats[c].api_count = Len(cats[c].apis)
        /\ \A api \in Catalog : \A c \in DOMAIN cats :
             Cardinality(placesOf(cats[c], api.slug))
               = IF cats[c].category_id = api.category THEN 1 ELSE 0
        /\ \A c \in DOMAIN cats : \A k, n \in DOMAIN cats[c].apis :
             (cats[c].apis[k].status = "initial" /\ k < n)
               => cats[c].apis[n].status = "initial"
        /\ sumOfCounts(cats) = Len(STABLE_APIS) + Len(INITIAL_APIS)

\* The categories were listed and the entry of auth-fraud holds stable and
\* initial records.
C20_Witness ==
  /\ toolCalled("camara_list_categories")
  /\ \E c \in DOMAIN locals.cats :
       /\ locals.cats[c].category_id = "auth-fraud"
       /\ \E k, n \in DOMAIN locals.cats[c].apis :
            /\ locals.cats[c].apis[k].status = "stable"
            /\ locals.cats[c].apis[n].status = "initial"

\* The tools that take the slug of one stable API.
slugTools ==
  { "camara_get_api_detail", "camara_generate_client_code",
    "camara_migration_guide", "camara_integration_checklist" }

isStableSlug(slug) == \E i \in DOMAIN STABLE_APIS : STABLE_APIS[i].slug = slug

\* C19: a slug that is not found is answered with a value: getApiDetail
\* returns null for it, and camara_get_api_detail,
\* camara_generate_client_code, camara_migration_guide and
\* camara_integration_checklist called with a slug that is not a stable slug
\* return an isError result whose text names the slug and lists every stable
\* slug (and no error for a stable slug); camara_search_apis never returns an
\* error, and with no match it returns total = 0, count = 0, no items,
\* has_more false and no next_offset.
C19_NotFoundReturned ==
  /\ \A name \in slugTools :
       toolCalled(name) =>
         LET slug == tool[1].params.slug
         IN  /\ isErrorResult(result) <=> ~isStableSlug(slug)
             /\ ~isStableSlug(slug) =>
                  /\ includes(resultText(result), "'" \o slug \o "' not found")
                  /\ listsStableSlugs(resultText(result))
                  /\ "structuredContent" \notin DOMAIN result
             /\ name = "camara_get_api_detail" =>
                  (locals.detail = null <=> ~isStableSlug(slug))
  /\ toolCalled("camara_search_apis") =>
       /\ ~isErrorResult(result)
       /\ locals.results = response
       /\ combined = << >> =>
            /\ response.total = 0
            /\ response.count = 0
            /\ response.items = << >>
            /\ response.has_more = FALSE
            /\ "next_offset" \notin DOMAIN response
            /\ tool[1].params.response_format = "json" =>
                 result.structuredContent = response

\* camara_migration_guide was called with the slug of an initial record and
\* returned an error result listing the stable slugs.
C19_Witness ==
  /\ toolCalled("camara_migration_guide")
  /\ tool[1].params.slug = "location-retrieval"
  /\ isErrorResult(result)
  /\ listsStableSlugs(resultText(result))

\* The handler of the tool  name  run on  params : its locals and its result.
handlerOf(name, params) ==
  CASE name = "camara_search_apis" ->
         LET results == searchApisReturn(
                          combinedArray(params.query, params.category, params.status),
                          params.limit, params.offset)
         IN  [ locals |-> [ results |-> results ],
               result |-> searchApisTool(params, results) ]
    [] name = "camara_get_api_detail" -> getApiDetailTool(params)
    [] name = "camara_list_categories" -> listCategoriesTool(params)
    [] name = "camara_compare_apis" -> compareApisTool(params)
    [] name = "camara_use_cases" -> useCasesTool(params)
    [] name = "camara_generate_client_code" -> generateClientCodeTool(params)
    [] name = "camara_migration_guide" -> migrationGuideTool(params)
    [] name = "camara_integration_checklist" -> integrationChecklistTool(params)
    [] name = "camara_auth_guide" -> authGuideTool(params)

\* params with the other response_format.
otherFormat(params) ==
  [ params EXCEPT !.response_format = IF @ = "json" THEN "markdown" ELSE "json" ]

\* The places in text where sub starts, counted from 0, in ascending order.
occurrences(text, sub) ==
  LET at == { p \in 0..(Len(text) - Len(sub)) :
                SubSeq(text, p + 1, p + Len(sub)) = sub }
  IN  [ k \in 1..Cardinality(at) |->
          CHOOSE p \in at : Cardinality({ r \in at : r < p }) = k - 1 ]

startsAt(text, p, sub) == SubSeq(text, p + 1, p + Len(sub)) = sub

\* The headings of level 3 of a markdown text start, in order, with the
\* strings of  starts.
headingsAre(text, starts) ==
  LET heads == << >> \o occurrences(text, "\n### ")
  IN  /\ Len(heads) = Len(starts)
      /\ \A k \in 1..Len(heads) : startsAt(text, heads[k] + 5, starts[k])

\* The markdown of camara_use_cases has one section per property of
\* industryMap, and the section of a property names the entries of the
\* property in their order.
groupsAre(text, industryMap) ==
  LET heads == << >> \o occurrences(text, "\n### ")
      names == << >> \o occurrences(text, "\n**")
      until(k) == IF k = Len(heads) THEN Len(text) ELSE heads[k + 1]
      inSection(k) == SelectSeq(names, LAMBDA p : heads[k] < p /\ p < until(k))
  IN  /\ Len(heads) = Len(industryMap)
      /\ \A i \in 1..Len(industryMap) :
           \E k \in 1..Len(heads) :
             /\ startsAt(text, heads[k] + 5, industryMap[i].key \o "\n")
             /\ Len(inSection(k)) = Len(industryMap[i].value)
             /\ \A n \in 1..Len(industryMap[i].value) :
                  startsAt(text, inSection(k)[n] + 1,
                           "**" \o industryMap[i].value[n].api \o "** (" \o GRAVE
                             \o industryMap[i].value[n].slug \o GRAVE \o ")")

timesRequested(slugs, s) == Cardinality({ i \in DOMAIN slugs : slugs[i] = s })

\* C29: camara_compare_apis counts the resolved slugs with multiplicity.  The
\* details hold one projection per requested slug that is a stable slug, a
\* stable slug requested k times is projected k times, the at-least-2 check
\* passes exactly if 2 or more requested slugs are stable slugs (be they the
\* same slug), and the number of projections returned is then between 2 and 5.
C29_WithMultiplicity ==
  toolCalled("camara_compare_apis") =>
    LET slugs == tool[1].params.slugs
        stablePlaces == { i \in DOMAIN slugs : isStableSlug(slugs[i]) }
        details == locals.details
    IN  /\ Len(details) = Cardinality(stablePlaces)
        /\ \A i \in DOMAIN STABLE_APIS :
             Cardinality({ n \in DOMAIN details :
                             details[n].slug = STABLE_APIS[i].slug })
               = timesRequested(slugs, STABLE_APIS[i].slug)
        /\ isErrorResult(result) <=> Cardinality(stablePlaces) < 2
        /\ ~isErrorResult(result) =>
             /\ Len(details) >= MinSlugs
             /\ Len(details) <= MaxSlugs
             /\ tool[1].params.response_format = "json" =>
                  /\ Len(result.structuredContent.apis) = Cardinality(stablePlaces)
                  /\ \A n \in DOMAIN details :
                       result.structuredContent.apis[n].slug = resolved(slugs)[n]
             /\ tool[1].params.response_format = "markdown" =>
                  Len(occurrences(resultText(result), "\n### "))
                    = Cardinality(stablePlaces)

\* camara_compare_apis was called with one stable slug twice next to an
\* unknown slug and returned the projection of that API twice.
C29_Witness ==
  /\ toolCalled("camara_compare_apis")
  /\ tool[1].params.slugs = << "sim-swap", "not-a-real-slug", "sim-swap" >>
  /\ tool[1].params.response_format = "json"
  /\ ~isErrorResult(result)
  /\ Len(result.structuredContent.apis) = 2
  /\ result.structuredContent.apis[1] = result.structuredContent.apis[2]

\* The first dot-separated component of a version: its longest prefix that
\* holds no dot.
firstComponent(v) ==
  LET dotFree == { k \in 0..Len(v) : \A p \in 1..k : charAt(v, p) # "." }
  IN  SubSeq(v, 1, CHOOSE k \in dotFree : \A r \in dotFree : r <= k)

\* The record of STABLE_APIS with the slug.
stableOf(slug) ==
  STABLE_APIS[CHOOSE i \in DOMAIN STABLE_APIS : STABLE_APIS[i].slug = slug]

\* What camara_migration_guide returns for a stable slug beside from_version:
\* to_version is the latest version, is_major_upgrade compares the first
\* components, a major upgrade has 8 steps and another 6, version_history is
\* the latest version followed by previousVersions.
guideIsConsistent ==
  LET api == stableOf(tool[1].params.slug)
      guide == locals.guide
  IN  /\ ~isErrorResult(result)
      /\ guide.to_version = api.latestVersion
      /\ guide.is_major_upgrade <=>
           firstComponent(guide.from_version) # firstComponent(guide.to_version)
      /\ Len(guide.migration_steps) = IF guide.is_major_upgrade THEN 8 ELSE 6
      /\ guide.version_history = << api.latestVersion >> \o api.previousVersions
      /\ tool[1].params.response_format = "json" =>
           result.structuredContent = guide
      /\ tool[1].params.response_format = "markdown" =>
           includes(resultText(result),
                    "Migration Guide (v" \o guide.from_version \o " -> v"
                      \o guide.to_version \o ")")

\* C26 as claimed: camara_migration_guide for a stable slug uses the given
\* from_version, or when it is omitted the first entry of previousVersions;
\* to_version, is_major_upgrade, the number of steps and version_history are
\* as in guideIsConsistent.
C26_GivenFromVersion ==
  (toolCalled("camara_migration_guide") /\ isStableSlug(tool[1].params.slug)) =>
    /\ locals.guide.from_version =
         IF tool[1].params.from_version # undefined
         THEN tool[1].params.from_version[1]
         ELSE stableOf(tool[1].params.slug).previousVersions[1]
    /\ guideIsConsistent

\* C26 amended: camara_migration_guide for a stable slug uses the given
\* from_version when it is a string that is not empty; when from_version is
\* omitted or is the empty string it uses the first entry of previousVersions
\* (every stable record has one).  to_version, is_major_upgrade, the number
\* of steps and version_history are as in guideIsConsistent.
C26_NonEmptyFromVersion ==
  (toolCalled("camara_migration_guide") /\ isStableSlug(tool[1].params.slug)) =>
    /\ Len(stableOf(tool[1].params.slug).previousVersions) > 0
    /\ locals.guide.from_version =
         IF tool[1].params.from_version # undefined
              /\ tool[1].params.from_version[1] # ""
         THEN tool[1].params.from_version[1]
         ELSE stableOf(tool[1].params.slug).previousVersions[1]
    /\ guideIsConsistent

\* camara_migration_guide was called for sim-swap (latest version 2.1.0) from
\* version 1.0.0 and returned a major upgrade of 8 steps.
C26_Witness ==
  /\ toolCalled("camara_migration_guide")
  /\ tool[1].params.slug = "sim-swap"
  /\ tool[1].params.from_version = Some("1.0.0")
  /\ locals.guide.from_version = "1.0.0"
  /\ locals.guide.is_major_upgrade
  /\ Len(locals.guide.migration_steps) = 8

\* The names of the stable records whose authFlow contains the flow.
namesWithFlow(flow) ==
  { STABLE_APIS[i].name :
      i \in { k \in DOMAIN STABLE_APIS : includes(STABLE_APIS[k].authFlow, flow) } }

\* C30: camara_auth_guide never returns an error result.  With api_slug
\* absent, empty or not the slug of a stable record the guide has
\* specific_api = null and the text no "Auth Details" section, and with a
\* stable slug it has the detail of that record.  The Client Credentials list
\* holds exactly (and once each) the stable APIs whose authFlow contains
\* "Client Credentials", the Authorization Code list exactly those whose
\* authFlow contains "Authorization Code"; an API naming both flows is in
\* both lists, and every stable API is in at least one.
C30_GuideNeverFails ==
  toolCalled("camara_auth_guide") =>
    LET api_slug == tool[1].params.api_slug
        guide == locals.guide
        twoLegged == guide.flows[1].apis
        threeLegged == guide.flows[2].apis
        named == api_slug # undefined /\ isStableSlug(api_slug[1])
    IN  /\ ~isErrorResult(result)
        /\ named => /\ guide.specific_api # null
                    /\ guide.specific_api.slug = api_slug[1]
        /\ ~named => guide.specific_api = null
        /\ tool[1].params.response_format = "markdown" =>
             (named <=> includes(resultText(result), " Auth Details"))
        /\ tool[1].params.response_format = "json" =>
             result.structuredContent = guide
        /\ Range(twoLegged) = namesWithFlow("Client Credentials")
        /\ Len(twoLegged) = Cardinality(namesWithFlow("Client Credentials"))
        /\ Range(threeLegged) = namesWithFlow("Authorization Code")
        /\ Len(threeLegged) = Cardinality(namesWithFlow("Authorization Code"))
        /\ \A i \in DOMAIN STABLE_APIS :
             /\ \/ STABLE_APIS[i].name \in Range(twoLegged)
                \/ STABLE_APIS[i].name \in Range(threeLegged)
             /\ (/\ includes(STABLE_APIS[i].authFlow, "Client Credentials")
                 /\ includes(STABLE_APIS[i].authFlow, "Authorization Code")) =>
                  /\ STABLE_APIS[i].name \in Range(twoLegged)
                  /\ STABLE_APIS[i].name \in Range(threeLegged)

\* camara_auth_guide was called with the slug of an initial record and
\* returned the guide without a specific API, with SIM Swap in both lists.
C30_Witness ==
  /\ toolCalled("camara_auth_guide")
  /\ tool[1].params.api_slug = Some("location-retrieval")
  /\ ~isErrorResult(result)
  /\ locals.guide.specific_api = null
  /\ "SIM Swap" \in Range(locals.guide.flows[1].apis)
  /\ "SIM Swap" \in Range(locals.guide.flows[2].apis)

\* The fetch calls that have returned.
returnedCalls == { id \in 1..MaxRequests :
                     inflight[id] # null /\ inflight[id].pc = "returned" }

\* The headers have the name, in lower case, with the value.
hasHeader(headers, name, value) ==
  name \in DOMAIN headers /\ headers[name] = value

\* The branch of fetch a returned call took.
branchOf(call) ==
  IF call.request.method = "OPTIONS" THEN "preflight"
  ELSE IF call.response.status = 404 THEN "not found"
  ELSE IF call.response.status = 500 THEN "internal error"
  ELSE IF call.transport # null THEN "transport"
  ELSE "info"

\* C27: every Response the fetch handler returns, on every branch (the 204
\* preflight, the 200 info and health documents, the Response of the MCP
\* transport, the 500 internal error, the 404), has the five CORS headers
\* with their fixed values, whatever value the transport set for those names.
C27_CorsOnEveryResponse ==
  \A id \in returnedCalls :
    LET headers == inflight[id].response.headers
    IN  /\ hasHeader(headers, "access-control-allow-origin", "*")
        /\ hasHeader(headers, "access-control-allow-methods",
                     "GET, POST, DELETE, OPTIONS")
        /\ hasHeader(headers, "access-control-allow-headers",
                     "Content-Type, mcp-session-id, mcp-protocol-version")
        /\ hasHeader(headers, "access-control-expose-headers", "mcp-session-id")
        /\ hasHeader(headers, "access-control-max-age", "86400")

\* The transport answered with its own values for three of the CORS header
\* names, written in other cases, and fetch returned its Response.
C27_Witness ==
  /\ 1 \in returnedCalls
  /\ branchOf(inflight[1]) = "transport"
  /\ \E i \in DOMAIN inflight[1].outcome.headers :
       inflight[1].outcome.headers[i] =
         << "access-control-allow-origin", "https://app.example" >>
  /\ \E i \in DOMAIN inflight[1].outcome.headers :
       inflight[1].outcome.headers[i] = << "Access-Control-Max-Age", "0" >>
  /\ inflight[1].response.status = 200
  /\ hasHeader(inflight[1].response.headers, "content-type", "application/json")
  /\ hasHeader(inflight[1].response.headers, "access-control-allow-origin", "*")
  /\ hasHeader(inflight[1].response.headers, "access-control-max-age", "86400")

\* The request of the call goes to the /mcp branch of fetch.
servesMcp(call) ==
  /\ call.request.method # "OPTIONS"
  /\ call.request.url \in { Origin \o "/mcp", Origin \o "/mcp?session=1" }

\* C28: when createMcpServer, server.connect or transport.handleRequest throws
\* while fetch serves /mcp, fetch returns a Response of status 500 whose body
\* is the JSON-RPC 2.0 message with error code -32603, the message
\* "Internal error: " followed by the message of the Error, or by
\* "Unknown error" when what was thrown is no Error, and id null.
C28_ThrowGivesInternalError ==
  \A id \in 1..MaxRequests :
    (/\ inflight[id] # null
     /\ servesMcp(inflight[id])
     /\ inflight[id].outcome.throws # "none") =>
      LET call == inflight[id]
          thrown == call.outcome.thrown
      IN  /\ call.pc # "handled"
          /\ call.pc = "connected" => call.outcome.throws = "handleRequest"
          /\ call.pc = "returned" =>
               /\ call.response.status = 500
               /\ call.response.body =
                    JSONstringify(
                      [ jsonrpc |-> "2.0",
                        error |->
                          [ code |-> -32603,
                            message |->
                              IF thrown.instanceofError
                              THEN "Internal error: " \o thrown.message
                              ELSE "Internal error: Unknown error" ],
                        id |-> null ])
               /\ hasHeader(call.response.headers, "content-type",
                            "application/json")

\* transport.handleRequest threw an Error for a tool call posted to /mcp and
\* fetch returned the 500 with the message of the Error.
C28_Witness ==
  /\ 1 \in returnedCalls
  /\ inflight[1].request.method = "POST"
  /\ inflight[1].request.url = Origin \o "/mcp"
  /\ inflight[1].request.body # null
  /\ inflight[1].outcome.throws = "handleRequest"
  /\ inflight[1].outcome.thrown.instanceofError
  /\ inflight[1].response.status = 500
  /\ inflight[1].response.body.jsonTextOf.error.message =
       "Internal error: Unexpected end of JSON input"
  /\ inflight[1].response.body.jsonTextOf.id = null

\* The URLs whose path is / , /health and /mcp.
rootUrls == { Origin, Origin \o "/" }

healthUrls == { Origin \o "/health", Origin \o "/health?verbose=1" }

mcpUrls == { Origin \o "/mcp", Origin \o "/mcp?session=1" }

\* The call was answered by the MCP transport: the server and the transport
\* were built unless createMcpServer threw, and the Response has the status
\* of the transport's, or is the 500 of the catch block.
byTransport(call) ==
  /\ call.outcome.throws # "createMcpServer" => call.transport # null
  /\ call.response.status =
       IF call.outcome.throws = "none" THEN call.outcome.status ELSE 500
  /\ call.outcome.throws = "none" =>
       call.response.body =
         handleRequest(call.server, call.request, call.outcome).body

\* The call was answered 404 with {error: "Not found"}.
notFound(call) ==
  /\ call.response.status = 404
  /\ call.response.body = JSONstringify([ error |-> "Not found" ])
  /\ call.transport = null

\* The rows of the endpoint table for OPTIONS, GET / and GET /health.
documentRows(call) ==
  /\ call.request.method = "OPTIONS" =>
       /\ call.response.status = 204
       /\ call.response.body = null
       /\ call.transport = null
  /\ (call.request.method = "GET" /\ call.request.url \in rootUrls) =>
       /\ call.response.status = 200
       /\ call.response.body = JSONstringify(serverInfo)
  /\ (call.request.method = "GET" /\ call.request.url \in healthUrls) =>
       /\ call.response.status = 200
       /\ call.response.body = JSONstringify(healthDocument)

\* C24 as stated: OPTIONS on any path answers 204 with no body, GET / answers
\* 200 with the server info, GET /health answers 200 with the health
\* document, POST /mcp is handled by the MCP transport, and a request
\* matching none of these four rows is answered 404 with {error: "Not found"}.
C24_EndpointTable ==
  \A id \in returnedCalls :
    LET call == inflight[id]
        method == call.request.method
        url == call.request.url
    IN  /\ documentRows(call)
        /\ (method = "POST" /\ url \in mcpUrls) => byTransport(call)
        /\ (/\ method # "OPTIONS"
            /\ ~(method = "GET" /\ url \in rootUrls \cup healthUrls)
            /\ ~(method = "POST" /\ url \in mcpUrls)) => notFound(call)

\* C24, amended: OPTIONS on any path answers 204 with no body, GET / answers
\* 200 with the server info, GET /health answers 200 with the health
\* document, a request of any other method than OPTIONS whose path is /mcp
\* is handled by the MCP transport, and every other request is answered 404
\* with {error: "Not found"}.
C24_Routing ==
  \A id \in returnedCalls :
    LET call == inflight[id]
        method == call.request.method
        url == call.request.url
    IN  /\ documentRows(call)
        /\ (method # "OPTIONS" /\ url \in mcpUrls) => byTransport(call)
        /\ (/\ method # "OPTIONS"
            /\ ~(method = "GET" /\ url \in rootUrls \cup healthUrls)
            /\ url \notin mcpUrls) => notFound(call)

\* A DELETE on /mcp went to the transport, which answered 405, and fetch
\* returned that status.
C24_Witness ==
  /\ 1 \in returnedCalls
  /\ inflight[1].request.method = "DELETE"
  /\ inflight[1].request.url = Origin \o "/mcp"
  /\ inflight[1].transport # null
  /\ inflight[1].outcome.throws = "none"
  /\ inflight[1].response.status = 405
  /\ hasHeader(inflight[1].response.headers, "allow", "GET, POST, DELETE")

\* The total a search response reports: structuredContent.total of the JSON
\* result.
reportedTotal(call) ==
  call.response.body.jsonTextOf.result.structuredContent.total

\* The call is a JSON search posted to /mcp with the status filter, and no
\* query or category, that the transport answered.
isSearchWith(call, status) ==
  /\ call.pc = "returned"
  /\ call.request.method = "POST"
  /\ call.request.url \in mcpUrls
  /\ call.request.body \in SearchBodies
  /\ call.request.body.params.arguments.status = status
  /\ call.request.body.params.arguments.response_format = Some(jsonString("json"))
  /\ call.outcome.throws = "none"
  /\ call.outcome.status = 200

\* C21: a search with no query, category or status reports total >= 60,
\* consistent with total_apis: 60 of GET /health, and a search with
\* status = "stable" reports total = 10, consistent with stable_apis: 10.
C21_SixtyApis ==
  \A id \in returnedCalls :
    /\ isSearchWith(inflight[id], undefined) =>
         /\ reportedTotal(inflight[id]) >= 60
         /\ reportedTotal(inflight[id]) >= healthDocument.total_apis
    /\ isSearchWith(inflight[id], Some(jsonString("stable"))) =>
         /\ reportedTotal(inflight[id]) = 10
         /\ reportedTotal(inflight[id]) = healthDocument.stable_apis

\* What holds of the code: the unfiltered search reports the 31 records of
\* the catalog, 10 stable and 21 initial, while /health reports 60.
C21_ThirtyOneApis ==
  \A id \in returnedCalls :
    /\ isSearchWith(inflight[id], undefined) =>
         reportedTotal(inflight[id]) = Len(STABLE_APIS) + Len(INITIAL_APIS)
    /\ isSearchWith(inflight[id], Some(jsonString("initial"))) =>
         reportedTotal(inflight[id]) = Len(INITIAL_APIS)
    /\ isSearchWith(inflight[id], Some(jsonString("stable"))) =>
         reportedTotal(inflight[id]) = healthDocument.stable_apis
    /\ (inflight[id].request.method = "GET"
        /\ inflight[id].request.url \in healthUrls) =>
         inflight[id].response.body.jsonTextOf.total_apis = 60

\* The call is a request to /mcp that fetch has answered with the transport's
\* Response to the JSON-RPC method.
answered(call, method) ==
  /\ call # null
  /\ call.pc = "returned"
  /\ call.request.body # null
  /\ call.request.body.method = method
  /\ call.response.status = 200

\* C23: the catalog is never mutated.  After any sequence of HTTP requests
\* with their tool calls and resource reads, served in any interleaving,
\* STABLE_APIS, INITIAL_APIS and API_CATEGORIES are the literal values of the
\* module: searchApis filters, maps and sorts arrays it builds and leaves the
\* order and the content of both record lists as they were.
C23_CatalogNeverMutated ==
  /\ STABLE_APIS = StableCatalog
  /\ INITIAL_APIS = InitialCatalog
  /\ API_CATEGORIES = CategoryCatalog

\* A search for the stable records, whose filter passes no initial record,
\* and a resource read have both been answered, and the initial records are
\* all there.
C23_Witness ==
  /\ \E id \in 1..MaxRequests :
       /\ answered(inflight[id], "tools/call")
       /\ inflight[id].request.body.params.name = "camara_search_apis"
       /\ inflight[id].request.body.params.arguments.status
            = Some(jsonString("stable"))
       /\ reportedTotal(inflight[id]) = 10
  /\ \E id \in 1..MaxRequests : answered(inflight[id], "resources/read")
  /\ Len(INITIAL_APIS) = 21
  /\ Len(STABLE_APIS) = 10

\* The fetch calls that have begun.
begun == { id \in 1..MaxRequests : inflight[id] # null }

\* The fetch calls that built a server and a transport.
withServer == { id \in begun : inflight[id].server # null }

\* C22: requests are independent.  Every request that reaches the /mcp branch
\* builds its own McpServer and its own transport, with no session id, and
\* under any interleaving of the steps of concurrent requests each request
\* gets the Response it gets when it is served alone.
C22_RequestsIndependent ==
  /\ \A id \in begun :
       LET call == inflight[id]
       IN  /\ (servesMcp(call) /\ call.outcome.throws # "createMcpServer")
                <=> id \in withServer
           /\ call.pc = "returned" =>
                call.response =
                  alone[[ request |-> call.request, outcome |-> call.outcome ]]
  /\ \A id \in withServer :
       /\ inflight[id].transport # null
       /\ inflight[id].transport.sessionIdGenerator = undefined
       /\ inflight[id].transport.sessionId = undefined
       /\ inflight[id].server.object # inflight[id].transport.object
       /\ \A other \in withServer \ { id } :
            /\ inflight[id].server.object # inflight[other].server.object
            /\ inflight[id].transport.object # inflight[other].transport.object
            /\ inflight[id].server.object # inflight[other].transport.object

\* The markdown search for the initial records has been answered as when
\* served alone while the resource read that began before it is between its
\* two awaits.
C22_Witness ==
  /\ answered(inflight[1], "tools/call")
  /\ inflight[1].request.body.params.name = "camara_search_apis"
  /\ inflight[1].request.body.params.arguments.status = Some(jsonString("initial"))
  /\ inflight[1].response =
       alone[[ request |-> inflight[1].request, outcome |-> inflight[1].outcome ]]
  /\ inflight[2] # null
  /\ inflight[2].pc = "connected"
  /\ inflight[2].request.body # null
  /\ inflight[2].request.body.method = "resources/read"
  /\ inflight[2].server.object < inflight[1].server.object

\* The records of both lists, the stable ones first.
combinedRecords == STABLE_APIS \o INITIAL_APIS

\* The keys of API_CATEGORIES.
categoryKeys == { API_CATEGORIES[i].id : i \in DOMAIN API_CATEGORIES }

\* SearchApisSchema accepts the category as the category filter.
schemaAccepts(category) ==
  LET parsed == SearchApisSchema(
                  [ searchArguments(undefined, undefined)
                      EXCEPT !.category = Some(jsonString(category)) ])
  IN  parsed.success /\ parsed.data.category = Some(category)

\* C25: in the combined record set, stable and initial, every slug is unique,
\* and every record's category is one of the 8 category identifiers, which
\* are the keys of API_CATEGORIES and the values of the category enum of
\* SearchApisSchema; so every built server registers its spec resources
\* under distinct names.
C25_UniqueSlugsKnownCategories ==
  /\ \A i, j \in DOMAIN combinedRecords :
       combinedRecords[i].slug = combinedRecords[j].slug => i = j
  /\ Cardinality(categoryKeys) = 8
  /\ Len(API_CATEGORIES) = 8
  /\ categoryKeys = Range(SearchCategoryEnum)
  /\ Len(SearchCategoryEnum) = 8
  /\ \A i \in DOMAIN combinedRecords :
       /\ combinedRecords[i].category \in categoryKeys
       /\ schemaAccepts(combinedRecords[i].category)
  /\ \A id \in withServer :
       \A i, j \in DOMAIN inflight[id].server.resources :
         inflight[id].server.resources[i].uri = inflight[id].server.resources[j].uri
           => i = j

\* The search without a filter has been answered with as many records as
\* there are slugs, by a server that registered one spec resource for each
\* stable record.
C25_Witness ==
  /\ 1 \in returnedCalls
  /\ isSearchWith(inflight[1], undefined)
  /\ reportedTotal(inflight[1])
       = Cardinality({ combinedRecords[i].slug : i \in DOMAIN combinedRecords })
  /\ Len(inflight[1].server.resources) = Len(STABLE_APIS)
  /\ { combinedRecords[i].category : i \in DOMAIN combinedRecords } = categoryKeys


=============================================================================
